---------------------------- MODULE Spec2Model ----------------------------
(***************************************************************************)
(* Verification model of secret-santa-manager (server/routes.ts,           *)
(* server/storage.ts, shared/schema.ts).                                   *)
(*                                                                         *)
(* The module holds several specifications over one set of variables:      *)
(*   SpecMatch     generateMatching as a state machine over its inputs     *)
(*   SpecStore     the admin operations on participants, exclusions, the   *)
(*                 event and its assignments                               *)
(*   SpecReminder  the reminder sweep sendGiftReminders under a clock      *)
(*   SpecGift      gift confirmations by a giver's reply and by the admin  *)
(*   SpecOnboard   the onboarding conversation of one invited contact      *)
(* Texts are sequences of one-character strings.                           *)
(* Variables a specification does not use stay at their initial value.     *)
(***************************************************************************)
EXTENDS Integers, Sequences, FiniteSets, TLC

VARIABLES
  \* ---- generateMatching (routes.ts 70-137)
  participantIds,   \* argument: the list of participant ids
  exclusionPairs,   \* argument: the exclusion pairs, as <<giver, excluded>>
  attempt,          \* the loop counter of line 129
  result,           \* what generateMatching returns
  matchPc,          \* "start", "loop" or "done"
  \* ---- the tables of shared/schema.ts
  participants,     \* table participants: id -> the columns modelled
  exclusions,       \* table exclusions, as <<participantId, excludedId>>
  event,            \* the one row of table events, or NoEvent
  assignments,      \* table assignments, a set of rows
  now,              \* the clock, what new Date() reads, in hours
  \* ---- the reminders sent since the clock last moved
  sweeps,           \* runs of sendGiftReminders at this clock value
  reminders,        \* the chat.postMessage calls of those runs
  \* ---- gift confirmation
  giftPosts,        \* the messages the last handler posted to participants
  \* ---- onboarding
  session,          \* the row of slack_onboarding_sessions, or NoSession
  contact,          \* the row of slack_contacts of that user, or NoContact
  prompts,          \* the onboarding prompts the last handler posted
  laterSessions,    \* the rows of slack_onboarding_sessions created later,
                    \* in the order of createdAt
  \* ---- handlers that have started and not yet returned
  inflight,         \* their position and their local variables
  \* ---- the HTTP layer of the server, for one browser session
  authenticated,    \* req.session.authenticated
  request,          \* the last request: its path below /api, its password
  response,         \* the status the last request was answered with
  slackAnswer       \* what chat.postMessage did when the last handler
                    \* wrote to a receiver: answered ok, answered with an
                    \* error, or threw

matchVars == <<participantIds, exclusionPairs, attempt, result, matchPc>>
storeVars == <<participants, exclusions, event, assignments>>
sweepVars == <<sweeps, reminders>>
onboardVars == <<session, contact, prompts>>
flightVars == <<laterSessions, inflight>>
httpVars == <<authenticated, request, response, slackAnswer>>
vars ==
  <<matchVars, storeVars, now, sweepVars, giftPosts, onboardVars, flightVars,
    httpVars>>

(***************************************************************************)
(* Bounds of the model.                                                    *)
(***************************************************************************)
MaxParticipants == 3    \* participant ids are 1..MaxParticipants
MaxExclusions == 2      \* size of the freely chosen exclusion sets
MaxStoredExclusions == 1 \* rows of table exclusions in SpecStore
MaxClockDays == 9       \* the clock of SpecReminder stops after this many days
MaxSweeps == 2          \* runs of the sweep at one clock value
MaxScheduleHours == 1   \* the clock and the scheduled dates of SpecNotify
MaxRequests == 2        \* requests of one kind that are handled at once

(***************************************************************************)
(* Generic helpers.                                                        *)
(***************************************************************************)
Range(s) == {s[i] : i \in DOMAIN s}

PIds == 1..MaxParticipants

\* Every ordered pair of ids, self pairs included: the schema allows them.
AllPairs == PIds \X PIds

\* "Everybody excludes everybody else" among the first n participants.
FullExclusion(n) == {p \in (1..n) \X (1..n) : p[1] # p[2]}

\* The exclusion lists of a call with n participants: every set of at most
\* MaxExclusions pairs of them (a row references two stored participants),
\* and the full exclusion.
ExclusionInputs(n) ==
  {S \in SUBSET ((1..n) \X (1..n)) : Cardinality(S) <= MaxExclusions}
    \cup {FullExclusion(n)}

(***************************************************************************)
(* The tables, shared/schema.ts 46-92, and DatabaseStorage.                *)
(***************************************************************************)
NoDate == -1            \* a timestamp column that is null
NoEvent == [exists |-> FALSE]

\* schema.ts 76-88: a new row of assignments, with the column defaults.
\* eventId is left out: table events never holds more than one row
\* (createEvent, routes.ts 1846-1858, updates the row that exists).
NewAssignment(giverId, receiverId) ==
  [giverId |-> giverId, receiverId |-> receiverId,
   notified |-> FALSE, notifiedAt |-> NoDate,
   giftSent |-> FALSE, giftSentAt |-> NoDate,
   lastReminderAt |-> NoDate, nextReminderAt |-> NoDate,
   receiverNotified |-> FALSE]

\* schema.ts 66-74: a new row of events, with the column defaults
NewEvent(status) ==
  [exists |-> TRUE, status |-> status, scheduledDate |-> NoDate,
   matchingComplete |-> FALSE, notificationsSent |-> FALSE]

\* schema.ts 46-61: the columns of a participant the server branches on.
\* slackUserId is TRUE when the column holds a Slack user id; timezone is
\* NoZone when the column is null.
NoZone == "none"
NewParticipantInputs ==
  {[slackUserId |-> s, timezone |-> NoZone] : s \in BOOLEAN}

NoParticipants == [p \in {} |-> [slackUserId |-> FALSE, timezone |-> NoZone]]

\* no sweep has run at this clock value, no handler has posted
NoSweeps ==
  /\ sweeps = 0
  /\ reminders = {}
  /\ giftPosts = {}

\* nobody has been invited
NoSession == [exists |-> FALSE]
NoContact == [exists |-> FALSE]
NoOnboarding ==
  /\ session = NoSession
  /\ contact = NoContact
  /\ prompts = <<>>

\* no handler is in progress
NoHandler == [pc |-> "idle"]
NoFlight ==
  /\ laterSessions = <<>>
  /\ inflight = NoHandler

\* no request has been made, the session has not logged in
NoRequest == [path |-> <<>>, password |-> "none"]
NoResponse == 0
\* no handler has written to a receiver
NoAnswer == "none"

NoHttp ==
  /\ authenticated = FALSE
  /\ request = NoRequest
  /\ response = NoResponse
  /\ slackAnswer = NoAnswer

\* generateMatching is not running
MatchIdle ==
  /\ participantIds = <<>>
  /\ exclusionPairs = {}
  /\ attempt = 0
  /\ result = [found |-> FALSE, pairs |-> <<>>]
  /\ matchPc = "done"

StoreEmpty ==
  /\ participants = NoParticipants
  /\ exclusions = {}
  /\ event = NoEvent
  /\ assignments = {}

\* a set of ids as a list, in the order of the ids
RECURSIVE SortedSeq(_)
SortedSeq(S) ==
  IF S = {} THEN <<>>
  ELSE LET m == CHOOSE x \in S : \A y \in S : x <= y
       IN <<m>> \o SortedSeq(S \ {m})

(***************************************************************************)
(* generateMatching, routes.ts 70-137.                                     *)
(***************************************************************************)
MaxAttempts == 100

\* The null a search or generateMatching returns, and a found assignment.
NullResult == [found |-> FALSE, pairs |-> <<>>]
Found(pairs) == [found |-> TRUE, pairs |-> pairs]

\* routes.ts 84-88. exclusionSet is the Set of "giver-excluded" keys built in
\* lines 78-81; the key of a pair of ids is modelled by the pair.
IsValidAssignment(exclusionSet, giverId, receiverId) ==
  /\ giverId # receiverId
  /\ <<giverId, receiverId>> \notin exclusionSet

\* routes.ts 91-98: Fisher-Yates with Math.random can return every
\* arrangement of the array; the set of them.
Shuffle(array) ==
  {[i \in 1..Len(array) |-> array[q[i]]] : q \in Permutations(1..Len(array))}

\* routes.ts 116: receivers.filter((r) => r !== receiver)
RemoveReceiverKeepAll(receivers, receiver) == receivers

RemoveReceiver(receivers, receiver) ==
  SelectSeq(receivers, LAMBDA r : r # receiver)

\* routes.ts 114-125: the for loop over shuffledReceivers (order). sub holds,
\* for every receiver, whether isValidAssignment accepts it (line 115) and
\* the set of results the recursive call of lines 117-120 can give. The loop
\* returns the first result that is not null (line 121), and null after the
\* last receiver (line 125).
SubOf(sub, receiver) == CHOOSE s \in sub : s.receiver = receiver

\* the loop without "if (result)": the first valid receiver decides
RECURSIVE TryInOrderNoBacktrack(_, _, _)
TryInOrderNoBacktrack(sub, order, i) ==
  IF i > Len(order) THEN {NullResult}
  ELSE IF ~SubOf(sub, order[i]).valid
       THEN TryInOrderNoBacktrack(sub, order, i + 1)
       ELSE SubOf(sub, order[i]).results

RECURSIVE TryInOrder(_, _, _)
TryInOrder(sub, order, i) ==
  IF i > Len(order) THEN {NullResult}
  ELSE IF ~SubOf(sub, order[i]).valid
       THEN TryInOrder(sub, order, i + 1)
       ELSE LET rs == SubOf(sub, order[i]).results
            IN {r \in rs : r.found}
                 \cup (IF NullResult \in rs
                       THEN TryInOrder(sub, order, i + 1)
                       ELSE {})

\* routes.ts 101-126: the set of results findAssignment can return, over the
\* outcomes of its shuffles.
RECURSIVE FindAssignment(_, _, _, _)
FindAssignment(exclusionSet, givers, receivers, current) ==
  IF Len(givers) = 0 THEN {Found(current)}
  ELSE
    LET giver == Head(givers)
        remainingGivers == Tail(givers)
        sub == {LET valid == IsValidAssignment(exclusionSet, giver, receiver)
                IN [receiver |-> receiver,
                    valid |-> valid,
                    results |->
                      IF valid
                      THEN FindAssignment(exclusionSet, remainingGivers,
                             RemoveReceiver(receivers, receiver),
                             Append(current, [giverId |-> giver,
                                              receiverId |-> receiver]))
                      ELSE {}] : receiver \in Range(receivers)}
    IN UNION {TryInOrder(sub, shuffledReceivers, 1) :
                shuffledReceivers \in Shuffle(receivers)}

\* routes.ts 130-132: one pass of the attempt loop. findAssignment shuffles
\* the receivers it is given before it reads them (line 112), so the shuffle
\* of line 131 is subsumed by it and the list is passed as it is.
AttemptResults(ids, exclusionSet) ==
  UNION {FindAssignment(exclusionSet, shuffledGivers, ids, <<>>) :
           shuffledGivers \in Shuffle(ids)}

\* ---- the state machine of one call
IdLists == {[i \in 1..n |-> i] : n \in 0..MaxParticipants}

InitMatch ==
  /\ participantIds \in IdLists
  /\ exclusionPairs \in ExclusionInputs(Len(participantIds))
  /\ attempt = 0
  /\ result = NullResult
  /\ matchPc = "start"
  /\ StoreEmpty
  /\ now = 0
  /\ NoSweeps
  /\ NoOnboarding
  /\ NoFlight
  /\ NoHttp

\* routes.ts 74-75
TooFew ==
  /\ matchPc = "start"
  /\ Len(participantIds) < 2
  /\ matchPc' = "done"
  /\ result' = NullResult
  /\ UNCHANGED <<participantIds, exclusionPairs, attempt>>

\* routes.ts 77-81
BuildExclusionSet ==
  /\ matchPc = "start"
  /\ Len(participantIds) >= 2
  /\ matchPc' = "loop"
  /\ UNCHANGED <<participantIds, exclusionPairs, attempt, result>>

\* the loop without its bound
AttemptUnbounded ==
  /\ matchPc = "loop"
  /\ \E r \in AttemptResults(participantIds, exclusionPairs) :
       IF r.found
       THEN /\ result' = r
            /\ matchPc' = "done"
            /\ attempt' = attempt
       ELSE /\ attempt' = attempt + 1
            /\ UNCHANGED <<result, matchPc>>
  /\ UNCHANGED <<participantIds, exclusionPairs>>

\* routes.ts 129-134, one iteration
Attempt ==
  /\ matchPc = "loop"
  /\ attempt < MaxAttempts
  /\ \E r \in AttemptResults(participantIds, exclusionPairs) :
       IF r.found
       THEN /\ result' = r
            /\ matchPc' = "done"
            /\ attempt' = attempt
       ELSE /\ attempt' = attempt + 1
            /\ UNCHANGED <<result, matchPc>>
  /\ UNCHANGED <<participantIds, exclusionPairs>>

\* routes.ts 129, 136: the loop condition fails
Exhausted ==
  /\ matchPc = "loop"
  /\ attempt >= MaxAttempts
  /\ matchPc' = "done"
  /\ result' = NullResult
  /\ UNCHANGED <<participantIds, exclusionPairs, attempt>>

NextMatch ==
  /\ TooFew \/ BuildExclusionSet \/ Attempt \/ Exhausted
  /\ UNCHANGED
       <<storeVars, now, sweepVars, giftPosts, onboardVars, flightVars,
         httpVars>>

SpecMatch == InitMatch /\ [][NextMatch]_vars

(***************************************************************************)
(* generateMatching as the handlers call it: the set of its results.       *)
(***************************************************************************)
\* routes.ts 129-136: the attempt loop from attempt k on, over the results
\* one pass can give. It returns the result of the first pass that finds an
\* assignment; it returns null when every pass left fails, which can be
\* when one pass can fail.
AttemptLoop(passResults, k) ==
  IF k >= MaxAttempts THEN {NullResult}
  ELSE {r \in passResults : r.found}
         \cup (IF NullResult \in passResults THEN {NullResult} ELSE {})

\* routes.ts 70-137
GenerateMatching(ids, exclusionSet) ==
  IF Len(ids) < 2 THEN {NullResult}
  ELSE AttemptLoop(AttemptResults(ids, exclusionSet), 0)

(***************************************************************************)
(* The admin operations, one action per request handler.                   *)
(***************************************************************************)
MinParticipants == 3

\* POST /api/participants, routes.ts 618-631, createParticipant 1814-1817
CreateParticipant(id, data) ==
  /\ giftPosts' = {}
  /\ id \notin DOMAIN participants
  /\ participants' =
       [p \in DOMAIN participants \cup {id} |->
          IF p = id THEN data ELSE participants[p]]
  /\ UNCHANGED <<exclusions, event, assignments>>

\* DELETE /api/participants/:id, routes.ts 652-661, deleteParticipant
\* 1828-1834
DeleteParticipant(id) ==
  /\ giftPosts' = {}
  /\ id \in DOMAIN participants
  /\ exclusions' = {e \in exclusions : e[1] # id /\ e[2] # id}
  /\ assignments' =
       {a \in assignments : a.giverId # id /\ a.receiverId # id}
  /\ participants' = [p \in DOMAIN participants \ {id} |-> participants[p]]
  /\ UNCHANGED event

\* POST /api/exclusions, routes.ts 798-811, createExclusion 1963-1966. The
\* two ids reference rows of participants (schema.ts 90-92).
CreateExclusion(participantId, excludedParticipantId) ==
  /\ giftPosts' = {}
  /\ participantId \in DOMAIN participants
  /\ excludedParticipantId \in DOMAIN participants
  /\ Cardinality(exclusions) < MaxStoredExclusions
  /\ exclusions' =
       exclusions \cup {<<participantId, excludedParticipantId>>}
  /\ UNCHANGED <<participants, event, assignments>>

\* DELETE /api/exclusions/:id, routes.ts 813-822
DeleteExclusion(e) ==
  /\ giftPosts' = {}
  /\ e \in exclusions
  /\ exclusions' = exclusions \ {e}
  /\ UNCHANGED <<participants, event, assignments>>

\* POST /api/reset, routes.ts 664-672, resetAll 2047-2054
ResetAll ==
  /\ giftPosts' = {}
  /\ participants' = NoParticipants
  /\ exclusions' = {}
  /\ event' = NoEvent
  /\ assignments' = {}

\* routes.ts 703-710: the current event, created as a draft when there is none
EventOrDraft == IF event.exists THEN event ELSE NewEvent("draft")

\* a handler that clears the stored round before it knows the new one
RunMatchingClearsFirst ==
  /\ giftPosts' = {}
  /\ UNCHANGED <<participants, exclusions>>
  /\ IF Cardinality(DOMAIN participants) < MinParticipants
     THEN /\ event' = EventOrDraft
          /\ UNCHANGED assignments
     ELSE \E matching \in GenerateMatching(SortedSeq(DOMAIN participants),
                                           exclusions) :
            IF ~matching.found
            THEN /\ event' = EventOrDraft
                 /\ assignments' = {}
            ELSE /\ assignments' =
                      {NewAssignment(matching.pairs[i].giverId,
                                     matching.pairs[i].receiverId) :
                         i \in DOMAIN matching.pairs}
                 /\ event' = [EventOrDraft EXCEPT
                                !.matchingComplete = TRUE,
                                !.status = "matched"]

\* POST /api/events/match, routes.ts 700-747
RunMatching ==
  /\ giftPosts' = {}
  /\ UNCHANGED <<participants, exclusions>>
  /\ IF Cardinality(DOMAIN participants) < MinParticipants
     THEN /\ event' = EventOrDraft
          /\ UNCHANGED assignments
     ELSE \E matching \in GenerateMatching(SortedSeq(DOMAIN participants),
                                           exclusions) :
            IF ~matching.found
            THEN /\ event' = EventOrDraft
                 /\ UNCHANGED assignments
            ELSE /\ assignments' =
                      {NewAssignment(matching.pairs[i].giverId,
                                     matching.pairs[i].receiverId) :
                         i \in DOMAIN matching.pairs}
                 /\ event' = [EventOrDraft EXCEPT
                                !.matchingComplete = TRUE,
                                !.status = "matched"]

\* sendSlackNotification, routes.ts 257-324: the message that tells the
\* giver of assignment a who the receiver is, when Slack has accepted it
AssignmentNotice(a) == [to |-> a.giverId, kind |-> "assignment"]

\* a batch that does not skip the assignments already notified
SendAllNotificationsNoSkip(delivered) ==
  LET pending == assignments
      successCount == Cardinality(delivered)
      failCount == Cardinality(pending \ delivered)
  IN /\ delivered \subseteq pending
     /\ assignments' =
          {IF a \in delivered
           THEN [a EXCEPT !.notified = TRUE, !.notifiedAt = now]
           ELSE a : a \in assignments}
     /\ giftPosts' = {AssignmentNotice(a) : a \in delivered}
     /\ event' =
          IF (successCount > 0 \/ failCount = 0) /\ event.exists
          THEN [event EXCEPT !.notificationsSent = TRUE,
                             !.status = "complete"]
          ELSE event

\* sendAllNotifications, routes.ts 545-593. delivered is the set of the
\* assignments whose sendSlackNotification returns true.
SendAllNotifications(delivered) ==
  LET pending == {a \in assignments : ~a.notified}
      successCount == Cardinality(delivered)
      failCount == Cardinality(pending \ delivered)
  IN /\ delivered \subseteq pending
     /\ assignments' =
          {IF a \in delivered
           THEN [a EXCEPT !.notified = TRUE, !.notifiedAt = now]
           ELSE a : a \in assignments}
     /\ giftPosts' = {AssignmentNotice(a) : a \in delivered}
     /\ event' =
          IF (successCount > 0 \/ failCount = 0) /\ event.exists
          THEN [event EXCEPT !.notificationsSent = TRUE,
                             !.status = "complete"]
          ELSE event

\* POST /api/events/notify, routes.ts 749-770
NotifyNow ==
  /\ event.exists
  /\ event.matchingComplete
  /\ \E delivered \in SUBSET assignments : SendAllNotifications(delivered)
  /\ UNCHANGED <<participants, exclusions>>

\* routes.ts 1356-1368, 1472-1484: the message telling the receiver that the
\* gift is on its way
ReceiverNotice(a) == [to |-> a.receiverId, kind |-> "gift_on_its_way"]

\* PATCH /api/assignments/:id/gift-status, routes.ts 1341-1380, with
\* updateAssignmentGiftStatus 1904-1909 and updateAssignmentReceiverNotified
\* 1922-1924. posted: the chat.postMessage call returns (its answer is not
\* read); otherwise it throws and the handler ends in its catch.
SetGiftStatus(a, giftSent, posted) ==
  /\ a \in assignments
  /\ LET marked == [a EXCEPT !.giftSent = giftSent,
                             !.giftSentAt = IF giftSent THEN now ELSE NoDate]
         notify == /\ giftSent
                   /\ participants[a.receiverId].slackUserId
                   /\ ~a.receiverNotified
     IN /\ assignments' =
             (assignments \ {a})
               \cup {IF notify /\ posted
                     THEN [marked EXCEPT !.receiverNotified = TRUE]
                     ELSE marked}
        /\ giftPosts' = IF notify THEN {ReceiverNotice(a)} ELSE {}
  /\ UNCHANGED <<participants, exclusions, event>>

InitStore ==
  /\ StoreEmpty
  /\ now = 0
  /\ NoSweeps
  /\ NoOnboarding
  /\ MatchIdle
  /\ NoFlight
  /\ NoHttp

NextStore ==
  /\ \/ \E id \in PIds, data \in NewParticipantInputs :
          CreateParticipant(id, data)
     \/ \E id \in PIds : DeleteParticipant(id)
     \/ \E a, b \in PIds : CreateExclusion(a, b)
     \/ \E e \in exclusions : DeleteExclusion(e)
     \/ ResetAll
     \/ RunMatching
     \/ NotifyNow
     \/ \E a \in assignments, giftSent, posted \in BOOLEAN :
          SetGiftStatus(a, giftSent, posted)
  /\ UNCHANGED <<httpVars, matchVars, now, sweepVars, onboardVars, flightVars>>

SpecStore == InitStore /\ [][NextStore]_vars

(***************************************************************************)
(* The reminder scheduler, routes.ts 8-58 and 447-533.  Instants are whole *)
(* hours since midnight UTC of day 0; a zone is its winter offset to UTC.  *)
(***************************************************************************)
DEFAULT_TIMEZONE == "Europe/Riga"
REMINDER_HOUR == 10
FirstReminderDays == 7
HoursPerDay == 24

Zones == {NoZone, "America/New_York"}

\* the offset date-fns-tz applies for the zone
ZoneOffset(tz) ==
  CASE tz = "Europe/Riga" -> 2
    [] tz = "America/New_York" -> -5

\* routes.ts 19, 46
ToZonedTime(date, tz) == date + ZoneOffset(tz)

\* routes.ts 30, 52
FromZonedTime(zoned, tz) == zoned - ZoneOffset(tz)

\* routes.ts 22, 49: setHours(.., REMINDER_HOUR) with minutes, seconds and
\* milliseconds set to 0
SetToReminderHour(zoned) ==
  (zoned \div HoursPerDay) * HoursPerDay + REMINDER_HOUR

\* a next slot that is two days on once 10:00 of today has passed
GetNext10AMSkipsADay(timezone, fromDate) ==
  LET tz == IF timezone = NoZone THEN DEFAULT_TIMEZONE ELSE timezone
      zonedTime == ToZonedTime(fromDate, tz)
      target == SetToReminderHour(zonedTime)
  IN FromZonedTime(IF target < zonedTime THEN target + 2 * HoursPerDay
                                         ELSE target, tz)

\* getNext10AMInTimezone, routes.ts 14-36
GetNext10AMInTimezone(timezone, fromDate) ==
  LET tz == IF timezone = NoZone THEN DEFAULT_TIMEZONE ELSE timezone
      zonedTime == ToZonedTime(fromDate, tz)
      target == SetToReminderHour(zonedTime)
  IN FromZonedTime(IF target < zonedTime THEN target + HoursPerDay
                                         ELSE target, tz)

\* a first reminder date that is seven days on and not set to the hour
GetFirstReminderDateUnanchored(timezone, notificationDate) ==
  notificationDate + FirstReminderDays * HoursPerDay

\* getFirstReminderDate, routes.ts 39-58
GetFirstReminderDate(timezone, notificationDate) ==
  LET tz == IF timezone = NoZone THEN DEFAULT_TIMEZONE ELSE timezone
      sevenDaysLater == notificationDate + FirstReminderDays * HoursPerDay
      zonedTime == ToZonedTime(sevenDaysLater, tz)
  IN FromZonedTime(SetToReminderHour(zonedTime), tz)

\* getAssignmentsNeedingReminder, routes.ts 1926-1938
AssignmentsNeedingReminder ==
  {a \in assignments : a.notified /\ ~a.giftSent}

GiverZone(a) == participants[a.giverId].timezone

\* routes.ts 459-463: the assignments the loop does not skip at once
Considered(a) ==
  /\ a \in AssignmentsNeedingReminder
  /\ a.notifiedAt # NoDate
  /\ participants[a.giverId].slackUserId

\* routes.ts 469-480: the slot stored on the first encounter
FirstSlot(a) ==
  LET firstReminderDate == GetFirstReminderDate(GiverZone(a), a.notifiedAt)
  IN IF firstReminderDate < now
     THEN GetNext10AMInTimezone(GiverZone(a), now)
     ELSE firstReminderDate

\* a sweep that does not compare the slot with the clock
DueWhateverTheClock(a) == a.nextReminderAt # NoDate

\* routes.ts 466-491: a slot is stored and it is not after now
Due(a) ==
  /\ a.nextReminderAt # NoDate
  /\ ~(now < a.nextReminderAt)

\* a sweep that also sends for the assignments it meets without a slot
SendGiftRemindersOnFirstEncounter(delivered) ==
  LET due == {a \in assignments :
                Considered(a) /\ (a.nextReminderAt = NoDate \/ Due(a))}
  IN /\ sweeps < MaxSweeps
     /\ delivered \subseteq due
     /\ assignments' =
          {IF ~Considered(a) THEN a
           ELSE IF a.nextReminderAt = NoDate
                THEN [a EXCEPT !.nextReminderAt = FirstSlot(a)]
           ELSE IF a \in delivered
                THEN [a EXCEPT
                        !.lastReminderAt = now,
                        !.nextReminderAt =
                           GetNext10AMInTimezone(GiverZone(a), now)]
           ELSE a : a \in assignments}
     /\ reminders' =
          reminders \cup
            {[giverId |-> a.giverId,
              slot |-> a.nextReminderAt,
              ok |-> a \in delivered,
              sweep |-> sweeps + 1] : a \in due}
     /\ sweeps' = sweeps + 1
     /\ UNCHANGED <<participants, exclusions, event, now, giftPosts>>

\* sendGiftReminders, routes.ts 447-533, with a Slack token configured.
\* delivered: the assignments whose chat.postMessage answers ok.
SendGiftReminders(delivered) ==
  LET due == {a \in assignments : Considered(a) /\ Due(a)}
  IN /\ sweeps < MaxSweeps
     /\ delivered \subseteq due
     /\ assignments' =
          {IF ~Considered(a) THEN a
           ELSE IF a.nextReminderAt = NoDate
                THEN [a EXCEPT !.nextReminderAt = FirstSlot(a)]
           ELSE IF a \in delivered
                THEN [a EXCEPT
                        !.lastReminderAt = now,
                        !.nextReminderAt =
                           GetNext10AMInTimezone(GiverZone(a), now)]
           ELSE a : a \in assignments}
     /\ reminders' =
          reminders \cup
            {[giverId |-> a.giverId,
              slot |-> a.nextReminderAt,
              ok |-> a \in delivered,
              sweep |-> sweeps + 1] : a \in due}
     /\ sweeps' = sweeps + 1
     /\ UNCHANGED <<participants, exclusions, event, now, giftPosts>>

\* the clock moves on by one hour
Tick ==
  /\ now < MaxClockDays * HoursPerDay
  /\ now' = now + 1
  /\ sweeps' = 0
  /\ reminders' = {}
  /\ UNCHANGED <<storeVars, giftPosts>>

\* the cycle 1 -> 2 -> ... -> 1, one of the results of generateMatching
CycleAssignments ==
  {NewAssignment(g, (g % MaxParticipants) + 1) : g \in PIds}

\* The store after a matching and after sendAllNotifications at clock value
\* now, delivered to giver 1 only.
InitReminder ==
  /\ now \in 0..(HoursPerDay - 1)
  /\ \E s \in BOOLEAN, tz \in Zones :
       participants =
         [p \in PIds |->
            IF p = 1 THEN [slackUserId |-> s, timezone |-> tz]
                     ELSE [slackUserId |-> TRUE, timezone |-> NoZone]]
  /\ exclusions = {}
  /\ event = [NewEvent("complete") EXCEPT !.matchingComplete = TRUE,
                                          !.notificationsSent = TRUE]
  /\ assignments =
       {IF a.giverId = 1
        THEN [a EXCEPT !.notified = TRUE, !.notifiedAt = now]
        ELSE a : a \in CycleAssignments}
  /\ NoSweeps
  /\ NoOnboarding
  /\ MatchIdle
  /\ NoFlight
  /\ NoHttp

NextReminder ==
  /\ \/ Tick
     \/ \E delivered \in SUBSET assignments : SendGiftReminders(delivered)
  /\ UNCHANGED <<httpVars, matchVars, onboardVars, flightVars>>

SpecReminder == InitReminder /\ [][NextReminder]_vars

(***************************************************************************)
(* The scheduler while it is up: the timer of routes.ts 599-601 runs a     *)
(* sweep every 15 minutes, so the clock does not pass an hour without a    *)
(* sweep; Slack answers ok to every reminder.                              *)
(***************************************************************************)
\* a sweep of the timer in which every send succeeds
TimerSweep ==
  SendGiftReminders({a \in assignments : Considered(a) /\ Due(a)})

\* the clock moves on by one hour, in which the timer has fired
HourWithSweep ==
  /\ sweeps >= 1
  /\ Tick

\* The store after a matching and after sendAllNotifications at clock value
\* 0, delivered to giver 1 only, who has a Slack user id.
InitNag ==
  /\ now = 0
  /\ \E tz \in Zones :
       participants =
         [p \in PIds |->
            [slackUserId |-> TRUE,
             timezone |-> IF p = 1 THEN tz ELSE NoZone]]
  /\ exclusions = {}
  /\ event = [NewEvent("complete") EXCEPT !.matchingComplete = TRUE,
                                          !.notificationsSent = TRUE]
  /\ assignments =
       {IF a.giverId = 1
        THEN [a EXCEPT !.notified = TRUE, !.notifiedAt = now]
        ELSE a : a \in CycleAssignments}
  /\ NoSweeps
  /\ NoOnboarding
  /\ MatchIdle
  /\ NoFlight
  /\ NoHttp

NextNag ==
  /\ \/ TimerSweep
     \/ HourWithSweep
  /\ UNCHANGED <<httpVars, matchVars, onboardVars, flightVars>>

\* the server goes on running
SpecNag == InitNag /\ [][NextNag]_vars /\ WF_vars(NextNag)

(***************************************************************************)
(* Texts: what the string methods used by the handlers do.                 *)
(***************************************************************************)
UpperLetters ==
  <<"A", "B", "C", "D", "E", "F", "G", "H", "I", "J", "K", "L", "M",
    "N", "O", "P", "Q", "R", "S", "T", "U", "V", "W", "X", "Y", "Z">>
LowerLetters ==
  <<"a", "b", "c", "d", "e", "f", "g", "h", "i", "j", "k", "l", "m",
    "n", "o", "p", "q", "r", "s", "t", "u", "v", "w", "x", "y", "z">>

IndexIn(letters, c) == CHOOSE i \in DOMAIN letters : letters[i] = c

LowerChar(c) ==
  IF c \in Range(UpperLetters) THEN LowerLetters[IndexIn(UpperLetters, c)]
  ELSE c

\* String.prototype.toLowerCase
ToLowerCase(text) == [i \in DOMAIN text |-> LowerChar(text[i])]

\* String.prototype.trim, for texts whose only white space is the space
RECURSIVE TrimStart(_)
TrimStart(text) ==
  IF text # <<>> /\ Head(text) = " " THEN TrimStart(Tail(text)) ELSE text

RECURSIVE TrimEnd(_)
TrimEnd(text) ==
  IF text # <<>> /\ text[Len(text)] = " "
  THEN TrimEnd(SubSeq(text, 1, Len(text) - 1))
  ELSE text

Trim(text) == TrimEnd(TrimStart(text))

\* String.prototype.includes
Includes(text, part) ==
  \E i \in 1..(Len(text) - Len(part) + 1) :
    SubSeq(text, i, i + Len(part) - 1) = part

(***************************************************************************)
(* Gift confirmation by the giver's reply, routes.ts 1405-1537.            *)
(***************************************************************************)
\* routes.ts 1459: the words of a yes
IsYes(lowerText) ==
  \/ lowerText = <<"y", "e", "s">>
  \/ lowerText = <<"y">>
  \/ Includes(lowerText, <<"s", "e", "n", "t">>)
  \/ Includes(lowerText, <<"d", "o", "n", "e">>)

\* routes.ts 1460: the words of a no
IsNo(lowerText) ==
  \/ lowerText = <<"n", "o">>
  \/ lowerText = <<"n">>
  \/ Includes(lowerText, <<"n", "o", "t", " ", "y", "e", "t">>)

\* routes.ts 1447-1452: the assignments find() can return for the user.
\* A participant's Slack user id is modelled by the participant's id.
PendingGiftAssignments(user) ==
  {a \in assignments :
     /\ a.giverId = user
     /\ participants[a.giverId].slackUserId
     /\ a.notified
     /\ ~a.giftSent
     /\ a.lastReminderAt # NoDate}

\* routes.ts 1489-1500
ThankYou(user) == [to |-> user, kind |-> "thank_you"]

\* routes.ts 1506-1518
Encouragement(user) == [to |-> user, kind |-> "encouragement"]

\* a yes that posts the receiver notification whatever receiverNotified holds
ConfirmGiftSentUnguarded(a, user, posted) ==
  LET marked == [a EXCEPT !.giftSent = TRUE, !.giftSentAt = now]
      notify == participants[a.receiverId].slackUserId
  IN /\ assignments' =
          (assignments \ {a})
            \cup {IF notify /\ posted
                  THEN [marked EXCEPT !.receiverNotified = TRUE]
                  ELSE marked}
     /\ giftPosts' =
          (IF notify THEN {ReceiverNotice(a)} ELSE {})
            \cup (IF notify /\ ~posted THEN {} ELSE {ThankYou(user)})

\* handleGiftConfirmation, the yes branch, routes.ts 1466-1503. posted: the
\* chat.postMessage call to the receiver returns; otherwise it throws and
\* the handler ends there.
ConfirmGiftSent(a, user, posted) ==
  LET marked == [a EXCEPT !.giftSent = TRUE, !.giftSentAt = now]
      notify == /\ participants[a.receiverId].slackUserId
                /\ ~a.receiverNotified
  IN /\ assignments' =
          (assignments \ {a})
            \cup {IF notify /\ posted
                  THEN [marked EXCEPT !.receiverNotified = TRUE]
                  ELSE marked}
     /\ giftPosts' =
          (IF notify THEN {ReceiverNotice(a)} ELSE {})
            \cup (IF notify /\ ~posted THEN {} ELSE {ThankYou(user)})

\* routes.ts 1447-1464: the reply is one handleGiftConfirmation handles
GiftConfirmationHandled(user, lowerText) ==
  /\ PendingGiftAssignments(user) # {}
  /\ IsYes(lowerText) \/ IsNo(lowerText)

\* handleGiftConfirmation, routes.ts 1440-1523, for a reply it handles
HandleGiftConfirmation(user, lowerText, posted) ==
  \E a \in PendingGiftAssignments(user) :
    IF IsYes(lowerText)
    THEN ConfirmGiftSent(a, user, posted)
    ELSE /\ giftPosts' = {Encouragement(user)}
         /\ UNCHANGED assignments

(***************************************************************************)
(* The onboarding conversation, routes.ts 1538-1717.                       *)
(***************************************************************************)
\* schema.ts 161-169: the states in the order the conversation visits them
OnboardingOrder ==
  <<"awaiting_consent", "collecting_name", "collecting_country",
    "collecting_city", "collecting_zip", "collecting_street",
    "collecting_phone", "collecting_notes", "completed">>

\* a text column that is null
NoText == <<"(null)">>

\* createOnboardingSession as the invitation calls it, routes.ts 1253-1258
NewSession(user) ==
  [exists |-> TRUE, slackUserId |-> user,
   conversationState |-> "awaiting_consent",
   collectedName |-> NoText, collectedCountry |-> NoText,
   collectedCity |-> NoText, collectedZip |-> NoText,
   collectedStreet |-> NoText, collectedPhone |-> NoText,
   collectedNotes |-> NoText]

\* the contact after its invitation, routes.ts 1261-1264
InvitedContact(user) ==
  [exists |-> TRUE, slackUserId |-> user, status |-> "invited",
   respondedAt |-> NoDate]

UpperChar(c) ==
  IF c \in Range(LowerLetters) THEN UpperLetters[IndexIn(LowerLetters, c)]
  ELSE c

\* String.prototype.toUpperCase
ToUpperCase(text) == [i \in DOMAIN text |-> UpperChar(text[i])]

\* split(" "), first character of each word to upper case, join(" "):
\* the characters at the start of the text or after a space are raised
TitleCase(text) ==
  [i \in DOMAIN text |->
     IF i = 1 \/ text[i - 1] = " " THEN UpperChar(text[i]) ELSE text[i]]

DigitChars == {"0", "1", "2", "3", "4", "5", "6", "7", "8", "9"}

\* replace(/\D/g, "")
Digits(text) == SelectSeq(text, LAMBDA c : c \in DigitChars)

MinNameLength == 2
MaxNameLength == 100
MinPlaceLength == 2
MinZipLength == 3
MinStreetLength == 5
MinPhoneDigits == 7

\* What one pass through the switch decides: the new state, the collected
\* field it sets ("none" when it sets none), the contact row, the prompt,
\* and whether a participant is created.
Step(state, field, value, contactRow, prompt, create) ==
  [handled |-> TRUE, state |-> state, field |-> field, value |-> value,
   contact |-> contactRow, prompt |-> prompt, create |-> create]

\* a failed validation that also forgets the name
StayForgetsName(prompt) ==
  Step(session.conversationState, "collectedName", NoText, contact, prompt,
       FALSE)

\* validation failed: same state, a prompt to try again
Stay(prompt) ==
  Step(session.conversationState, "none", NoText, contact, prompt, FALSE)

\* a consent step that looks for the words of a no first
ConsentStepNoFirst(lowerText) ==
  IF \/ Includes(lowerText, <<"n", "o">>)
     \/ Includes(lowerText, <<"n", "o", "p", "e">>)
     \/ Includes(lowerText, <<"d", "e", "c", "l", "i", "n", "e">>)
  THEN Step("declined", "none", NoText,
            [contact EXCEPT !.status = "declined", !.respondedAt = now],
            "declined_ack", FALSE)
  ELSE IF \/ Includes(lowerText, <<"y", "e", "s">>)
          \/ Includes(lowerText, <<"y", "e", "a", "h">>)
          \/ Includes(lowerText, <<"s", "u", "r", "e">>)
          \/ Includes(lowerText, <<"o", "k">>)
  THEN Step("collecting_name", "none", NoText,
            [contact EXCEPT !.status = "in_progress"], "ask_name", FALSE)
  ELSE Stay("reprompt_consent")

\* routes.ts 1553-1565
ConsentStep(lowerText) ==
  IF \/ Includes(lowerText, <<"y", "e", "s">>)
     \/ Includes(lowerText, <<"y", "e", "a", "h">>)
     \/ Includes(lowerText, <<"s", "u", "r", "e">>)
     \/ Includes(lowerText, <<"o", "k">>)
  THEN Step("collecting_name", "none", NoText,
            [contact EXCEPT !.status = "in_progress"], "ask_name", FALSE)
  ELSE IF \/ Includes(lowerText, <<"n", "o">>)
          \/ Includes(lowerText, <<"n", "o", "p", "e">>)
          \/ Includes(lowerText, <<"d", "e", "c", "l", "i", "n", "e">>)
  THEN Step("declined", "none", NoText,
            [contact EXCEPT !.status = "declined", !.respondedAt = now],
            "declined_ack", FALSE)
  ELSE Stay("reprompt_consent")

\* a name step that starts the conversation over on a bad name
NameStepStartsOver(messageText) ==
  IF Len(messageText) >= MinNameLength /\ Len(messageText) <= MaxNameLength
  THEN Step("collecting_country", "collectedName", TitleCase(messageText),
            contact, "ask_country", FALSE)
  ELSE Step("awaiting_consent", "none", NoText, contact, "reprompt_name",
            FALSE)

\* routes.ts 1567-1575
NameStep(messageText) ==
  IF Len(messageText) >= MinNameLength /\ Len(messageText) <= MaxNameLength
  THEN Step("collecting_country", "collectedName", TitleCase(messageText),
            contact, "ask_country", FALSE)
  ELSE Stay("reprompt_name")

\* routes.ts 1577-1585
CountryStep(messageText) ==
  IF Len(messageText) >= MinPlaceLength
  THEN Step("collecting_city", "collectedCountry", TitleCase(messageText),
            contact, "ask_city", FALSE)
  ELSE Stay("reprompt_country")

\* routes.ts 1587-1595
CityStep(messageText) ==
  IF Len(messageText) >= MinPlaceLength
  THEN Step("collecting_zip", "collectedCity", TitleCase(messageText),
            contact, "ask_zip", FALSE)
  ELSE Stay("reprompt_city")

\* a zip step that says nothing about a code that is too short
ZipStepSilentOnBadInput(messageText) ==
  IF Len(messageText) >= MinZipLength
  THEN Step("collecting_street", "collectedZip", ToUpperCase(messageText),
            contact, "ask_street", FALSE)
  ELSE [handled |-> FALSE]

\* routes.ts 1597-1605
ZipStep(messageText) ==
  IF Len(messageText) >= MinZipLength
  THEN Step("collecting_street", "collectedZip", ToUpperCase(messageText),
            contact, "ask_street", FALSE)
  ELSE Stay("reprompt_zip")

\* a street step that does not ask for the phone
StreetStepSkipsPhone(messageText) ==
  IF Len(messageText) >= MinStreetLength
  THEN Step("collecting_notes", "collectedStreet", messageText,
            contact, "ask_notes", FALSE)
  ELSE Stay("reprompt_street")

\* routes.ts 1607-1615
StreetStep(messageText) ==
  IF Len(messageText) >= MinStreetLength
  THEN Step("collecting_phone", "collectedStreet", messageText,
            contact, "ask_phone", FALSE)
  ELSE Stay("reprompt_street")

\* a phone step that is content with one digit less
PhoneStepOneDigitLess(messageText) ==
  IF Len(Digits(messageText)) >= MinPhoneDigits - 1
  THEN Step("collecting_notes", "collectedPhone", messageText,
            contact, "ask_notes", FALSE)
  ELSE Stay("reprompt_phone")

\* routes.ts 1617-1627
PhoneStep(messageText) ==
  IF Len(Digits(messageText)) >= MinPhoneDigits
  THEN Step("collecting_notes", "collectedPhone", messageText,
            contact, "ask_notes", FALSE)
  ELSE Stay("reprompt_phone")

\* a notes step that stores the text also when it says skip
NotesStepStoresSkip(messageText, lowerText) ==
  Step("completed",
       IF Len(messageText) > 0 THEN "collectedNotes" ELSE "none",
       messageText,
       [contact EXCEPT !.status = "completed", !.respondedAt = now],
       "all_set", TRUE)

\* routes.ts 1629-1686
NotesStep(messageText, lowerText) ==
  LET isSkip == \/ lowerText = <<"s", "k", "i", "p">>
                \/ lowerText = <<"n", "o", "n", "e">>
                \/ lowerText = <<"n", "/", "a">>
  IN Step("completed",
          IF ~isSkip /\ Len(messageText) > 0 THEN "collectedNotes"
                                             ELSE "none",
          messageText,
          [contact EXCEPT !.status = "completed", !.respondedAt = now],
          "all_set", TRUE)

\* a finished session that asks for consent again
FinishedAsksAgain == Stay("reprompt_consent")

\* routes.ts 1688-1694: the session is finished, or its state is none of the
\* switch; the handler returns
Finished == [handled |-> FALSE]

\* the switch of routes.ts 1552-1695
DispatchStep(messageText, lowerText) ==
  CASE session.conversationState = "awaiting_consent" ->
         ConsentStep(lowerText)
    [] session.conversationState = "collecting_name" -> NameStep(messageText)
    [] session.conversationState = "collecting_country" ->
         CountryStep(messageText)
    [] session.conversationState = "collecting_city" -> CityStep(messageText)
    [] session.conversationState = "collecting_zip" -> ZipStep(messageText)
    [] session.conversationState = "collecting_street" ->
         StreetStep(messageText)
    [] session.conversationState = "collecting_phone" ->
         PhoneStep(messageText)
    [] session.conversationState = "collecting_notes" ->
         NotesStep(messageText, lowerText)
    [] OTHER -> Finished

\* schema.ts 47-48: the id the table gives a new row, one no row has
NewParticipantId ==
  CHOOSE id \in 1..(Cardinality(DOMAIN participants) + 1) :
    id \notin DOMAIN participants

\* createParticipant of routes.ts 1662-1676: the row of the new participant
WithParticipant(id, data) ==
  [p \in DOMAIN participants \cup {id} |->
     IF p = id THEN data ELSE participants[p]]

\* the displayName of the contact, used when no name was collected
DisplayName == <<"(display name)">>

\* routes.ts 1662-1676: the participant made of the session. notes is
\* collectedNotes of routes.ts 1640; a || b gives b for null and for "".
ParticipantOfSession(notes, userTimezone) ==
  [slackUserId |-> TRUE,
   timezone |-> userTimezone,
   name |-> IF session.collectedName \in {NoText, <<>>} THEN DisplayName
            ELSE session.collectedName,
   country |-> session.collectedCountry,
   city |-> session.collectedCity,
   zip |-> session.collectedZip,
   street |-> session.collectedStreet,
   phone |-> IF session.collectedPhone \in {NoText, <<>>} THEN <<>>
             ELSE session.collectedPhone,
   notes |-> notes]

\* routes.ts 1538-1716: the onboarding part of processSlackMessage.
\* userTimezone is the zone users.info gives, NoZone when it gives none.
OnboardingDispatch(user, messageText, lowerText, userTimezone) ==
  IF \/ ~session.exists
     \/ ~contact.exists
  THEN /\ prompts' = <<>>
       /\ UNCHANGED <<participants, session, contact>>
  ELSE IF session.slackUserId # user \/ contact.slackUserId # user
  THEN /\ prompts' = <<>>
       /\ UNCHANGED <<participants, session, contact>>
  ELSE LET step == DispatchStep(messageText, lowerText)
       IN IF ~step.handled
          THEN /\ prompts' = <<>>
               /\ UNCHANGED <<participants, session, contact>>
          ELSE /\ session' =
                    IF step.field = "none"
                    THEN [session EXCEPT !.conversationState = step.state]
                    ELSE [session EXCEPT !.conversationState = step.state,
                                         ![step.field] = step.value]
               /\ contact' = step.contact
               /\ participants' =
                    IF step.create
                    THEN WithParticipant(
                           NewParticipantId,
                           ParticipantOfSession(
                             IF step.field = "none" THEN NoText
                             ELSE step.value,
                             userTimezone))
                    ELSE participants
               /\ prompts' = <<step.prompt>>

\* a handler that looks for the onboarding session first and comes to the
\* gift confirmation only when the user has no open conversation
ProcessSlackMessageSessionFirst(user, messageText, posted, userTimezone) ==
  LET lowerText == Trim(ToLowerCase(messageText))
      open == /\ session.exists
              /\ session.slackUserId = user
              /\ session.conversationState \notin {"completed", "declined"}
  IN /\ IF ~open /\ GiftConfirmationHandled(user, lowerText)
        THEN /\ HandleGiftConfirmation(user, lowerText, posted)
             /\ prompts' = <<>>
             /\ UNCHANGED <<participants, session, contact>>
        ELSE /\ giftPosts' = {}
             /\ UNCHANGED assignments
             /\ OnboardingDispatch(user, messageText, lowerText,
                                   userTimezone)
     /\ UNCHANGED <<exclusions, event>>

\* processSlackMessage, routes.ts 1526-1717, with a Slack token configured.
\* A Slack user is named by the id of the participant or contact it is.
ProcessSlackMessage(user, messageText, posted, userTimezone) ==
  LET lowerText == Trim(ToLowerCase(messageText))
  IN /\ IF GiftConfirmationHandled(user, lowerText)
        THEN /\ HandleGiftConfirmation(user, lowerText, posted)
             /\ prompts' = <<>>
             /\ UNCHANGED <<participants, session, contact>>
        ELSE /\ giftPosts' = {}
             /\ UNCHANGED assignments
             /\ OnboardingDispatch(user, messageText, lowerText,
                                   userTimezone)
     /\ UNCHANGED <<exclusions, event>>

\* POST /api/slack/events for a direct message, routes.ts 1405-1434
SlackMessageEvent(user, text, posted, userTimezone) ==
  ProcessSlackMessage(user, Trim(text), posted, userTimezone)

\* the texts givers send
ReplyTexts ==
  {<<"Y", "e", "s">>,
   <<" ", "y", "e", "s", " ">>,
   <<"y">>,
   <<"S", "e", "n", "t", " ", "i", "t">>,
   <<"n", "o", "t", " ", "s", "e", "n", "t", " ", "y", "e", "t">>,
   <<"d", "o", "n", "e">>,
   <<"N", "o">>,
   <<"n", "o", "t", " ", "y", "e", "t">>,
   <<"n", "o", "t", " ", "y", "e", "t", " ", "s", "e", "n", "t">>,
   <<"h", "e", "l", "l", "o">>}

\* The store after a matching, after the notification of giver 1 and, for
\* stage "reminded", after the sweeps that stored the first slot and then
\* delivered the first reminder an hour after it.
InitGift ==
  LET firstSlot == GetFirstReminderDate(NoZone, 0)
      sentAt == firstSlot + 1
  IN /\ now = sentAt
     /\ \E giverSlack, receiverSlack \in BOOLEAN :
          participants =
            [p \in PIds |->
               [slackUserId |-> IF p = 1 THEN giverSlack
                                ELSE IF p = 2 THEN receiverSlack
                                ELSE TRUE,
                timezone |-> NoZone]]
     /\ \E stage \in {"notified", "reminded"} :
          /\ stage = "reminded" => participants[1].slackUserId
          /\ assignments =
               {IF a.giverId # 1 THEN a
                ELSE IF stage = "notified"
                     THEN [a EXCEPT !.notified = TRUE, !.notifiedAt = 0]
                ELSE [a EXCEPT
                        !.notified = TRUE, !.notifiedAt = 0,
                        !.lastReminderAt = sentAt,
                        !.nextReminderAt =
                           GetNext10AMInTimezone(NoZone, sentAt)] :
                  a \in CycleAssignments}
     /\ exclusions = {}
     /\ event = [NewEvent("complete") EXCEPT !.matchingComplete = TRUE,
                                             !.notificationsSent = TRUE]
     /\ NoSweeps
     /\ NoOnboarding
     /\ MatchIdle
     /\ NoFlight
     /\ NoHttp

NextGift ==
  /\ \/ \E user \in PIds, text \in ReplyTexts, posted \in BOOLEAN :
          SlackMessageEvent(user, text, posted, NoZone)
     \/ /\ \E a \in assignments, giftSent, posted \in BOOLEAN :
             SetGiftStatus(a, giftSent, posted)
        /\ UNCHANGED onboardVars
  /\ UNCHANGED <<httpVars, matchVars, now, sweepVars, flightVars>>

SpecGift == InitGift /\ [][NextGift]_vars

(***************************************************************************)
(* The onboarding conversation of one invited contact.                     *)
(***************************************************************************)
\* a text one character longer than a name may be
LongText == [i \in 1..(MaxNameLength + 1) |-> "a"]

\* the texts the contact sends
MessageTexts ==
  {<<"y", "e", "s">>,
   <<"N", "o">>,
   <<"x">>,
   <<"a", " ", "5", "5", "5", "1", "2", "3", "4">>,
   <<"1", "2", "3", "4", "5", "6">>,
   <<"s", "k", "i", "p">>,
   <<>>,
   LongText}

\* The store after POST /api/slack/invitations/send has invited user 1,
\* routes.ts 1215-1289; the messages are those this contact writes.
InitOnboard ==
  /\ StoreEmpty
  /\ now = 0
  /\ NoSweeps
  /\ MatchIdle
  /\ NoFlight
  /\ NoHttp
  /\ session = NewSession(1)
  /\ contact = InvitedContact(1)
  /\ prompts = <<>>

NextOnboard ==
  /\ \E text \in MessageTexts, userTimezone \in Zones :
       SlackMessageEvent(session.slackUserId, text, TRUE, userTimezone)
  /\ UNCHANGED <<httpVars, matchVars, now, sweepVars, flightVars>>

SpecOnboard == InitOnboard /\ [][NextOnboard]_vars

\* a yes, a text of one character, a phone number of seven digits and one
\* of six
ShortTexts ==
  {<<"y", "e", "s">>,
   <<"x">>,
   <<"5", "5", "5", "1", "2", "3", "4">>,
   <<"1", "2", "3", "4", "5", "6">>}

\* the conversation of InitOnboard with these texts
NextShortTexts ==
  /\ \E text \in ShortTexts, userTimezone \in Zones :
       SlackMessageEvent(session.slackUserId, text, TRUE, userTimezone)
  /\ UNCHANGED <<httpVars, matchVars, now, sweepVars, flightVars>>

SpecShortTexts == InitOnboard /\ [][NextShortTexts]_vars

\* what an invited contact answers when asked to join
ConsentTexts ==
  {<<"Y", "e", "s">>,
   <<"s", "u", "r", "e">>,
   <<"n", "o", "p", "e">>,
   <<"I", " ", "d", "e", "c", "l", "i", "n", "e">>,
   <<"n", "o", "t", " ", "s", "u", "r", "e">>,
   <<"h", "m">>}

\* the conversation of InitOnboard with the answers to the invitation
NextConsent ==
  /\ \E text \in ConsentTexts :
       SlackMessageEvent(session.slackUserId, text, TRUE, NoZone)
  /\ UNCHANGED <<httpVars, matchVars, now, sweepVars, flightVars>>

SpecConsent == InitOnboard /\ [][NextConsent]_vars

(***************************************************************************)
(* Notification of the givers: the manual dispatch, the scheduled-event    *)
(* checker, scheduling and matching again, each handler run to its end     *)
(* before the next one starts.                                             *)
(***************************************************************************)
\* POST /api/events/schedule, routes.ts 685-698, with createEvent 1846-1858
ScheduleEvent(scheduledDate) ==
  /\ event' =
       IF event.exists
       THEN [event EXCEPT !.scheduledDate = scheduledDate,
                          !.status = "scheduled"]
       ELSE [NewEvent("scheduled") EXCEPT !.scheduledDate = scheduledDate]
  /\ giftPosts' = {}
  /\ UNCHANGED <<participants, exclusions, assignments>>

\* checkScheduledEvents without the comparison of scheduledDate with the
\* current time
CheckScheduledEventsAnyTime ==
  /\ event.exists
  /\ event.scheduledDate # NoDate
  /\ event.matchingComplete
  /\ ~event.notificationsSent
  /\ \E delivered \in SUBSET assignments : SendAllNotifications(delivered)
  /\ UNCHANGED <<participants, exclusions>>

\* checkScheduledEvents, routes.ts 425-443, when the event is due
CheckScheduledEvents ==
  /\ event.exists
  /\ event.scheduledDate # NoDate
  /\ event.matchingComplete
  /\ ~event.notificationsSent
  /\ event.scheduledDate <= now
  /\ \E delivered \in SUBSET assignments : SendAllNotifications(delivered)
  /\ UNCHANGED <<participants, exclusions>>

\* the clock moves on by one hour, up to the last scheduled date
HourPasses ==
  /\ now < MaxScheduleHours
  /\ now' = now + 1
  /\ UNCHANGED <<storeVars, giftPosts>>

\* Three participants with a Slack user id and no event yet.
InitNotify ==
  /\ participants =
       [p \in 1..MinParticipants |->
          [slackUserId |-> TRUE, timezone |-> NoZone]]
  /\ exclusions = {}
  /\ event = NoEvent
  /\ assignments = {}
  /\ now = 0
  /\ NoSweeps
  /\ NoOnboarding
  /\ MatchIdle
  /\ NoFlight
  /\ NoHttp

NextNotify ==
  /\ \/ /\ \/ \E scheduledDate \in 0..MaxScheduleHours :
                ScheduleEvent(scheduledDate)
           \/ RunMatching
           \/ NotifyNow
           \/ CheckScheduledEvents
        /\ UNCHANGED now
     \/ HourPasses
  /\ UNCHANGED <<httpVars, matchVars, sweepVars, onboardVars, flightVars>>

SpecNotify == InitNotify /\ [][NextNotify]_vars

(***************************************************************************)
(* The scheduled-event checker alone: the event is scheduled and matched   *)
(* by the admin and only the timer of routes.ts 599-604 dispatches. A run  *)
(* of the checker either ends or is cut short by an exception, which the   *)
(* catch of routes.ts 440-442 logs; setInterval keeps calling it.          *)
(***************************************************************************)
\* checkScheduledEvents, routes.ts 425-443, when sendAllNotifications throws
\* on the way: the rows of delivered have been told and marked (567-576),
\* the rows of lost have been told and updateAssignmentNotified has thrown
\* (at most one, 575), and updateEvent of 586-590 is never reached.
CheckScheduledEventsThrows(delivered, lost) ==
  LET pending == {a \in assignments : ~a.notified}
  IN /\ event.exists
     /\ event.scheduledDate # NoDate
     /\ event.matchingComplete
     /\ ~event.notificationsSent
     /\ event.scheduledDate <= now
     /\ delivered \subseteq pending
     /\ lost \subseteq pending \ delivered
     /\ Cardinality(lost) <= 1
     /\ assignments' =
          {IF a \in delivered
           THEN [a EXCEPT !.notified = TRUE, !.notifiedAt = now]
           ELSE a : a \in assignments}
     /\ giftPosts' = {AssignmentNotice(a) : a \in delivered \cup lost}
     /\ UNCHANGED <<event, participants, exclusions>>

NextTimer ==
  /\ \/ /\ \/ \E scheduledDate \in 0..MaxScheduleHours :
                ScheduleEvent(scheduledDate)
           \/ RunMatching
           \/ CheckScheduledEvents
           \/ \E delivered \in SUBSET assignments :
                \E lost \in SUBSET assignments :
                  CheckScheduledEventsThrows(delivered, lost)
        /\ UNCHANGED now
     \/ HourPasses
  /\ UNCHANGED <<httpVars, matchVars, sweepVars, onboardVars, flightVars>>

SpecTimer == InitNotify /\ [][NextTimer]_vars

(***************************************************************************)
(* The admin requests with the status they are answered with.              *)
(***************************************************************************)
\* the request to path is answered with status; the session is left alone
Answered(path, status) ==
  /\ request' = [path |-> path, password |-> "none"]
  /\ response' = status
  /\ UNCHANGED <<authenticated, slackAnswer>>

\* routes.ts 714-727: the two conditions POST /api/events/match answers 400 on
MatchRejected ==
  \/ Cardinality(DOMAIN participants) < MinParticipants
  \/ NullResult \in GenerateMatching(SortedSeq(DOMAIN participants),
                                     exclusions)

\* POST /api/events/match with its answer, routes.ts 700-747
PostEventsMatch ==
  /\ RunMatching
  /\ Answered(<<"events", "match">>, IF MatchRejected THEN 400 ELSE 200)

\* exclusions of participant 1 that leave it no receiver among three
NoReceiverForOne == {<<1, 2>>, <<1, 3>>}

\* Three participants; either nothing else is stored, or a round was matched
\* before; the exclusions stored since are none or those of NoReceiverForOne.
InitMatchRequest ==
  /\ participants =
       [p \in 1..MinParticipants |->
          [slackUserId |-> TRUE, timezone |-> NoZone]]
  /\ exclusions \in {{}, NoReceiverForOne}
  /\ \E matched \in BOOLEAN :
       IF matched
       THEN /\ event = [NewEvent("matched") EXCEPT !.matchingComplete = TRUE]
            /\ assignments =
                 {NewAssignment(g, (g % MinParticipants) + 1) :
                    g \in 1..MinParticipants}
       ELSE /\ event = NoEvent
            /\ assignments = {}
  /\ now = 0
  /\ NoSweeps
  /\ NoOnboarding
  /\ MatchIdle
  /\ NoFlight
  /\ NoHttp

NextMatchRequest ==
  /\ \/ PostEventsMatch
     \/ /\ \E a, b \in PIds : CreateExclusion(a, b)
        /\ Answered(<<"exclusions">>, 200)
     \/ /\ \E e \in exclusions : DeleteExclusion(e)
        /\ Answered(<<"exclusions", "id">>, 200)
     \/ /\ \E id \in PIds : DeleteParticipant(id)
        /\ Answered(<<"participants", "id">>, 200)
     \/ /\ NotifyNow
        /\ Answered(<<"events", "notify">>, 200)
  /\ UNCHANGED <<matchVars, now, sweepVars, onboardVars, flightVars>>

SpecMatchRequest == InitMatchRequest /\ [][NextMatchRequest]_vars

(***************************************************************************)
(* Contacts and invitations: import, POST /api/slack/invitations/send step *)
(* by step, resend, and the messages of the contact. One contact, user 1.  *)
(***************************************************************************)
\* POST /api/slack/contacts/import for one user, routes.ts 1153-1201
ImportContact(user) ==
  /\ ~contact.exists
  /\ contact' = [exists |-> TRUE, slackUserId |-> user,
                 status |-> "imported", respondedAt |-> NoDate]
  /\ prompts' = <<>>
  /\ UNCHANGED <<session, laterSessions, inflight>>

\* the requests of POST /api/slack/invitations/send
Requests == 1..MaxRequests

\* the requests that have started
Started ==
  IF inflight.pc = "invite" THEN DOMAIN inflight.pendingContacts ELSE {}

\* routes.ts 1232: what is left of pendingContacts in request r
PendingContacts(r) ==
  IF r \in Started THEN inflight.pendingContacts[r] ELSE {}

\* routes.ts 1217-1227: the request reads the contacts and keeps the imported
BeginInvitations(r) ==
  /\ r \notin Started
  /\ contact.exists
  /\ contact.status = "imported"
  /\ inflight' =
       [pc |-> "invite",
        pendingContacts |->
          [q \in Started \cup {r} |->
             IF q = r THEN {contact.slackUserId} ELSE PendingContacts(q)]]
  /\ prompts' = <<>>
  /\ UNCHANGED <<session, contact, laterSessions>>

\* createOnboardingSession, routes.ts 2032-2035: getOnboardingSession returns
\* the row created first, which is session; any further row is kept in
\* laterSessions
CreateOnboardingSession(user) ==
  IF session.exists
  THEN /\ laterSessions' = Append(laterSessions, NewSession(user))
       /\ UNCHANGED session
  ELSE /\ session' = NewSession(user)
       /\ UNCHANGED laterSessions

\* routes.ts 1232-1276: one round of the loop of request r; ok: the answer
\* of chat.postMessage
InviteContact(r, user, ok) ==
  /\ user \in PendingContacts(r)
  /\ inflight' = [inflight EXCEPT !.pendingContacts[r] = @ \ {user}]
  /\ prompts' = <<"invitation">>
  /\ IF ok
     THEN /\ CreateOnboardingSession(user)
          /\ contact' = IF contact.exists
                        THEN [contact EXCEPT !.status = "invited"]
                        ELSE contact
     ELSE UNCHANGED <<session, contact, laterSessions>>

\* POST /api/slack/invitations/resend/:contactId, routes.ts 1292-1338
ResendInvitation(ok) ==
  /\ contact.exists
  /\ prompts' = <<"invitation_again">>
  /\ contact' = IF ok THEN [contact EXCEPT !.status = "invited"] ELSE contact
  /\ UNCHANGED <<session, laterSessions, inflight>>

\* the texts the contact sends: a yes, a no and an answer that every
\* question accepts
InviteTexts ==
  {<<"y", "e", "s">>,
   <<"N", "o">>,
   <<"a", " ", "5", "5", "5", "1", "2", "3", "4">>}

\* Nothing is stored yet.
InitInvite ==
  /\ StoreEmpty
  /\ now = 0
  /\ NoSweeps
  /\ NoOnboarding
  /\ MatchIdle
  /\ NoFlight
  /\ NoHttp

NextInvite ==
  /\ \/ /\ \/ ImportContact(1)
           \/ \E r \in Requests : BeginInvitations(r)
           \/ \E r \in Requests, ok \in BOOLEAN : InviteContact(r, 1, ok)
           \/ \E ok \in BOOLEAN : ResendInvitation(ok)
        /\ UNCHANGED <<storeVars, giftPosts>>
     \/ /\ \E text \in InviteTexts : SlackMessageEvent(1, text, TRUE, NoZone)
        /\ UNCHANGED flightVars
  /\ UNCHANGED <<httpVars, matchVars, now, sweepVars>>

SpecInvite == InitInvite /\ [][NextInvite]_vars

(***************************************************************************)
(* The session, the login and the middleware that guards /api, index.ts    *)
(* (part_003) 34-104, with APP_PASSWORD configured. A path is the list of  *)
(* the segments of req.path, the path below /api.                          *)
(***************************************************************************)
\* process.env.APP_PASSWORD
APP_PASSWORD == "correct"

\* the passwords a login request carries
Passwords == {"correct", "wrong", "none"}

\* the paths requested
Paths ==
  {<<"health">>,
   <<"auth", "login">>,
   <<"auth", "logout">>,
   <<"auth", "check">>,
   <<"auth">>,
   <<"slack", "events">>,
   <<"slack", "contacts", "import">>,
   <<"participants">>,
   <<"reset">>}

\* req.path.startsWith("/" + segment + "/")
StartsWithSegment(path, segment) == Len(path) >= 2 /\ path[1] = segment

\* a middleware that lets every path below /slack/ through
PassesAuthAllOfSlack(path) ==
  \/ path = <<"health">>
  \/ StartsWithSegment(path, "auth")
  \/ StartsWithSegment(path, "slack")
  \/ authenticated

\* part_003 56-58 and 91-104: the request gets past the middleware
PassesAuth(path) ==
  \/ path = <<"health">>
  \/ StartsWithSegment(path, "auth")
  \/ path = <<"slack", "events">>
  \/ authenticated

\* POST /api/reset with all that resetAll deletes, routes.ts 664-672 and
\* 2047-2054
PostReset ==
  /\ ResetAll
  /\ session' = NoSession
  /\ contact' = NoContact
  /\ prompts' = <<>>
  /\ laterSessions' = <<>>
  /\ UNCHANGED inflight

\* the route handler of path, when there is one
RouteHandler(path) ==
  CASE path = <<"participants">> ->
         /\ \E id \in PIds :
              CreateParticipant(id, [slackUserId |-> FALSE,
                                     timezone |-> NoZone])
         /\ UNCHANGED <<onboardVars, flightVars>>
    [] path = <<"reset">> -> PostReset
    [] path = <<"slack", "contacts", "import">> ->
         IF contact.exists
         THEN UNCHANGED <<storeVars, giftPosts, onboardVars, flightVars>>
         ELSE /\ ImportContact(1)
              /\ UNCHANGED <<storeVars, giftPosts>>
    [] path = <<"slack", "events">> ->
         /\ SlackMessageEvent(1, <<"y", "e", "s">>, TRUE, NoZone)
         /\ UNCHANGED flightVars
    [] OTHER -> UNCHANGED <<storeVars, giftPosts, onboardVars, flightVars>>

\* POST /api/auth/login, part_003 61-75
Login(password) ==
  /\ request' = [path |-> <<"auth", "login">>, password |-> password]
  /\ IF password = APP_PASSWORD
     THEN authenticated' = TRUE /\ response' = 200
     ELSE response' = 401 /\ UNCHANGED authenticated
  /\ UNCHANGED <<storeVars, giftPosts, onboardVars, flightVars, slackAnswer>>

\* POST /api/auth/logout, part_003 77-84: the session is destroyed
Logout ==
  /\ request' = [path |-> <<"auth", "logout">>, password |-> "none"]
  /\ authenticated' = FALSE
  /\ response' = 200
  /\ UNCHANGED <<storeVars, giftPosts, onboardVars, flightVars, slackAnswer>>

\* any other request to /api: the middleware, then the route
ApiRequest(path) ==
  /\ path \notin {<<"auth", "login">>, <<"auth", "logout">>}
  /\ request' = [path |-> path, password |-> "none"]
  /\ UNCHANGED <<authenticated, slackAnswer>>
  /\ IF PassesAuth(path)
     THEN /\ RouteHandler(path)
          /\ response' = 200
     ELSE /\ response' = 401
          /\ UNCHANGED <<storeVars, giftPosts, onboardVars, flightVars>>

InitAuth ==
  /\ StoreEmpty
  /\ now = 0
  /\ NoSweeps
  /\ NoOnboarding
  /\ MatchIdle
  /\ NoFlight
  /\ NoHttp

NextAuth ==
  /\ \/ \E password \in Passwords : Login(password)
     \/ Logout
     \/ \E path \in Paths : ApiRequest(path)
  /\ UNCHANGED <<matchVars, now, sweepVars>>

SpecAuth == InitAuth /\ [][NextAuth]_vars

(***************************************************************************)
(* POST /api/events/match step by step: the rows of the new round are      *)
(* stored one await after the other, and the dispatch of notifications     *)
(* can run in between.                                                     *)
(***************************************************************************)
\* routes.ts 703-729: up to and with clearAssignments
BeginMatching ==
  /\ inflight.pc = "idle"
  /\ Cardinality(DOMAIN participants) >= MinParticipants
  /\ \E matching \in GenerateMatching(SortedSeq(DOMAIN participants),
                                      exclusions) :
       /\ matching.found
       /\ inflight' = [pc |-> "match", matching |-> matching.pairs]
  /\ event' = EventOrDraft
  /\ assignments' = {}
  /\ giftPosts' = {}
  /\ UNCHANGED <<participants, exclusions>>

\* the pairs of the matching not stored yet
PairsToStore == IF inflight.pc = "match" THEN inflight.matching ELSE <<>>

\* routes.ts 730-736: one createAssignment
CreateNextAssignment ==
  /\ PairsToStore # <<>>
  /\ assignments' =
       assignments \cup {NewAssignment(Head(PairsToStore).giverId,
                                       Head(PairsToStore).receiverId)}
  /\ inflight' = [inflight EXCEPT !.matching = Tail(@)]
  /\ giftPosts' = {}
  /\ UNCHANGED <<participants, exclusions, event>>

\* routes.ts 740-742: updateEvent and the response
EndMatching ==
  /\ inflight.pc = "match"
  /\ PairsToStore = <<>>
  /\ event' = [event EXCEPT !.matchingComplete = TRUE, !.status = "matched"]
  /\ inflight' = NoHandler
  /\ giftPosts' = {}
  /\ UNCHANGED <<participants, exclusions, assignments>>

\* Three participants, a first round stored and nobody notified; the event
\* is scheduled for this hour or the next.
InitRematch ==
  /\ participants =
       [p \in 1..MinParticipants |->
          [slackUserId |-> TRUE, timezone |-> NoZone]]
  /\ exclusions = {}
  /\ \E scheduledDate \in 0..MaxScheduleHours :
       event = [NewEvent("scheduled") EXCEPT
                  !.scheduledDate = scheduledDate,
                  !.matchingComplete = TRUE]
  /\ assignments =
       {NewAssignment(g, (g % MinParticipants) + 1) : g \in 1..MinParticipants}
  /\ now = 0
  /\ NoSweeps
  /\ NoOnboarding
  /\ MatchIdle
  /\ NoFlight
  /\ NoHttp

NextRematch ==
  /\ \/ /\ \/ BeginMatching
           \/ CreateNextAssignment
           \/ EndMatching
        /\ UNCHANGED now
     \/ /\ \/ NotifyNow
           \/ CheckScheduledEvents
        /\ UNCHANGED <<now, inflight>>
     \/ /\ HourPasses
        /\ UNCHANGED inflight
  /\ UNCHANGED <<httpVars, matchVars, sweepVars, onboardVars, laterSessions>>

SpecRematch == InitRematch /\ [][NextRematch]_vars

(***************************************************************************)
(* sendGiftReminders step by step: the rows are read once, then the loop   *)
(* awaits Slack and a 500 ms pause per row, and other handlers run in      *)
(* between. A row is known by its giver. The clock does not move while     *)
(* the loop runs, so the value read at routes.ts 457 is now.               *)
(***************************************************************************)
\* routes.ts 448-457: the rows needing a reminder, read once
StartSweep ==
  /\ inflight.pc = "idle"
  /\ sweeps < MaxSweeps
  /\ inflight' = [pc |-> "sweep",
                  assignmentsNeedingReminder |-> AssignmentsNeedingReminder]
  /\ UNCHANGED <<storeVars, sweeps, reminders, giftPosts>>

\* updateAssignmentNextReminder, routes.ts 1918-1920
UpdateAssignmentNextReminder(id, nextReminderAt) ==
  assignments' =
    {IF x.giverId = id THEN [x EXCEPT !.nextReminderAt = nextReminderAt]
     ELSE x : x \in assignments}

\* updateAssignmentReminderSent, routes.ts 1911-1916
UpdateAssignmentReminderSent(id, nextReminderAt) ==
  assignments' =
    {IF x.giverId = id
     THEN [x EXCEPT !.lastReminderAt = now, !.nextReminderAt = nextReminderAt]
     ELSE x : x \in assignments}

\* the rows the loop has still to go through
RowsToSweep ==
  IF inflight.pc = "sweep" THEN inflight.assignmentsNeedingReminder ELSE {}

\* a round that records the reminder as sent whatever Slack answers
SweepAssignmentMarksFailed(assignment, ok) ==
  /\ assignment \in RowsToSweep
  /\ inflight' =
       [inflight EXCEPT !.assignmentsNeedingReminder = @ \ {assignment}]
  /\ IF \/ assignment.notifiedAt = NoDate
        \/ ~participants[assignment.giverId].slackUserId
     THEN UNCHANGED <<assignments, reminders>>
     ELSE IF assignment.nextReminderAt = NoDate
     THEN /\ UpdateAssignmentNextReminder(assignment.giverId,
                                          FirstSlot(assignment))
          /\ UNCHANGED reminders
     ELSE IF now < assignment.nextReminderAt
     THEN UNCHANGED <<assignments, reminders>>
     ELSE /\ reminders' =
               reminders \cup
                 {[giverId |-> assignment.giverId,
                   slot |-> assignment.nextReminderAt,
                   ok |-> ok,
                   sweep |-> sweeps + 1]}
          /\ UpdateAssignmentReminderSent(
               assignment.giverId,
               GetNext10AMInTimezone(GiverZone(assignment), now))
  /\ UNCHANGED <<participants, exclusions, event, sweeps, giftPosts>>

\* One round of the loop of routes.ts 459-526 for the row assignment as it
\* was read; ok: chat.postMessage answers ok. Otherwise it answers ok=false
\* (routes.ts 519-521) or throws (the catch of 523-526).
SweepAssignment(assignment, ok) ==
  /\ assignment \in RowsToSweep
  /\ inflight' =
       [inflight EXCEPT !.assignmentsNeedingReminder = @ \ {assignment}]
  /\ IF \/ assignment.notifiedAt = NoDate
        \/ ~participants[assignment.giverId].slackUserId
     THEN UNCHANGED <<assignments, reminders>>
     ELSE IF assignment.nextReminderAt = NoDate
     THEN /\ UpdateAssignmentNextReminder(assignment.giverId,
                                          FirstSlot(assignment))
          /\ UNCHANGED reminders
     ELSE IF now < assignment.nextReminderAt
     THEN UNCHANGED <<assignments, reminders>>
     ELSE /\ reminders' =
               reminders \cup
                 {[giverId |-> assignment.giverId,
                   slot |-> assignment.nextReminderAt,
                   ok |-> ok,
                   sweep |-> sweeps + 1]}
          /\ IF ok
             THEN UpdateAssignmentReminderSent(
                    assignment.giverId,
                    GetNext10AMInTimezone(GiverZone(assignment), now))
             ELSE UNCHANGED assignments
  /\ UNCHANGED <<participants, exclusions, event, sweeps, giftPosts>>

\* routes.ts 531-532: the loop is over
EndSweep ==
  /\ inflight.pc = "sweep"
  /\ RowsToSweep = {}
  /\ inflight' = NoHandler
  /\ sweeps' = sweeps + 1
  /\ UNCHANGED <<storeVars, reminders, giftPosts>>

\* the first slot of an assignment notified at clock value 0
SlotOfDayZero == GetFirstReminderDate(NoZone, 0)

\* the givers whose notification was delivered
NotifiedGivers == {1, 2}

\* The store a week after sendAllNotifications ran at clock value 0 and
\* reached the givers 1 and 2: each of their assignments has its first slot
\* stored or none, the clock is at that slot or an hour before.
InitSweepRun ==
  /\ now \in {SlotOfDayZero - 1, SlotOfDayZero}
  /\ participants =
       [p \in PIds |-> [slackUserId |-> TRUE, timezone |-> NoZone]]
  /\ exclusions = {}
  /\ event = [NewEvent("complete") EXCEPT !.matchingComplete = TRUE,
                                          !.notificationsSent = TRUE]
  /\ \E stored \in SUBSET NotifiedGivers :
       assignments =
         {IF a.giverId \in NotifiedGivers
          THEN [a EXCEPT !.notified = TRUE, !.notifiedAt = 0,
                         !.nextReminderAt =
                            IF a.giverId \in stored THEN SlotOfDayZero
                            ELSE NoDate]
          ELSE a : a \in CycleAssignments}
  /\ NoSweeps
  /\ NoOnboarding
  /\ MatchIdle
  /\ NoFlight
  /\ NoHttp

\* the sweep, the admin's PATCH gift-status and the givers' replies
NextSweepRun ==
  /\ \/ /\ \/ StartSweep
           \/ \E assignment \in RowsToSweep, ok \in BOOLEAN :
                SweepAssignment(assignment, ok)
           \/ EndSweep
        /\ UNCHANGED onboardVars
     \/ /\ \E a \in {x \in assignments : x.notified}, giftSent \in BOOLEAN :
             SetGiftStatus(a, giftSent, TRUE)
        /\ UNCHANGED <<sweepVars, onboardVars, inflight>>
     \/ /\ \E user \in PIds :
             SlackMessageEvent(user, <<"y", "e", "s">>, TRUE, NoZone)
        /\ UNCHANGED <<sweepVars, inflight>>
  /\ UNCHANGED <<httpVars, matchVars, now, laterSessions>>

SpecSweepRun == InitSweepRun /\ [][NextSweepRun]_vars

(***************************************************************************)
(* Two sweeps at once: the sweep of POST /api/assignments/send-reminders,  *)
(* step by step, and the sweep of the 15-minute timer, which runs from its *)
(* start to its end during one of the pauses of the other.                 *)
(***************************************************************************)
\* The store an hour after the first slot of the givers notified at clock
\* value 0; each of their assignments has that slot stored or none.
InitSweepOverlap ==
  /\ now = SlotOfDayZero + 1
  /\ participants =
       [p \in PIds |-> [slackUserId |-> TRUE, timezone |-> NoZone]]
  /\ exclusions = {}
  /\ event = [NewEvent("complete") EXCEPT !.matchingComplete = TRUE,
                                          !.notificationsSent = TRUE]
  /\ \E stored \in SUBSET NotifiedGivers :
       assignments =
         {IF a.giverId \in NotifiedGivers
          THEN [a EXCEPT !.notified = TRUE, !.notifiedAt = 0,
                         !.nextReminderAt =
                            IF a.giverId \in stored THEN SlotOfDayZero
                            ELSE NoDate]
          ELSE a : a \in CycleAssignments}
  /\ NoSweeps
  /\ NoOnboarding
  /\ MatchIdle
  /\ NoFlight
  /\ NoHttp

NextSweepOverlap ==
  /\ \/ StartSweep
     \/ \E assignment \in RowsToSweep, ok \in BOOLEAN :
          SweepAssignment(assignment, ok)
     \/ EndSweep
     \/ /\ \E delivered \in SUBSET assignments : SendGiftReminders(delivered)
        /\ UNCHANGED inflight
  /\ UNCHANGED <<httpVars, matchVars, now, onboardVars, laterSessions>>

SpecSweepOverlap == InitSweepOverlap /\ [][NextSweepOverlap]_vars

(***************************************************************************)
(* sendAllNotifications step by step: the assignments are read once, then  *)
(* the loop awaits Slack and a 500 ms pause per row, and the minute timer  *)
(* or another request runs in between.                                     *)
(***************************************************************************)
\* routes.ts 546-551 called from POST /api/events/notify, 749-770
BeginDispatch ==
  /\ inflight.pc = "idle"
  /\ event.exists
  /\ event.matchingComplete
  /\ inflight' = [pc |-> "dispatch",
                  assignmentsData |-> assignments,
                  successCount |-> 0,
                  failCount |-> 0]
  /\ giftPosts' = {}
  /\ UNCHANGED storeVars

\* the rows the loop has still to go through
RowsToDispatch ==
  IF inflight.pc = "dispatch" THEN inflight.assignmentsData ELSE {}

\* One round of the loop of routes.ts 553-583 for the row assignment as it
\* was read; success: the result of sendSlackNotification.
DispatchAssignment(assignment, success) ==
  /\ assignment \in RowsToDispatch
  /\ IF assignment.notified
     THEN /\ inflight' =
               [inflight EXCEPT !.assignmentsData = @ \ {assignment}]
          /\ giftPosts' = {}
          /\ UNCHANGED assignments
     ELSE /\ inflight' =
               [inflight EXCEPT
                  !.assignmentsData = @ \ {assignment},
                  !.successCount = IF success THEN @ + 1 ELSE @,
                  !.failCount = IF success THEN @ ELSE @ + 1]
          /\ giftPosts' =
               IF success THEN {AssignmentNotice(assignment)} ELSE {}
          /\ assignments' =
               {IF x.giverId = assignment.giverId /\ success
                THEN [x EXCEPT !.notified = TRUE, !.notifiedAt = now]
                ELSE x : x \in assignments}
  /\ UNCHANGED <<participants, exclusions, event>>

\* routes.ts 586-592: the loop is over
EndDispatch ==
  /\ inflight.pc = "dispatch"
  /\ RowsToDispatch = {}
  /\ event' =
       IF (inflight.successCount > 0 \/ inflight.failCount = 0)
          /\ event.exists
       THEN [event EXCEPT !.notificationsSent = TRUE, !.status = "complete"]
       ELSE event
  /\ inflight' = NoHandler
  /\ giftPosts' = {}
  /\ UNCHANGED <<participants, exclusions, assignments>>

\* Three participants matched in a cycle, the event scheduled for now and
\* nobody notified yet.
InitNotifyOverlap ==
  /\ now = 0
  /\ participants =
       [p \in PIds |-> [slackUserId |-> TRUE, timezone |-> NoZone]]
  /\ exclusions = {}
  /\ event = [NewEvent("scheduled") EXCEPT !.matchingComplete = TRUE,
                                           !.scheduledDate = 0]
  /\ assignments = CycleAssignments
  /\ NoSweeps
  /\ NoOnboarding
  /\ MatchIdle
  /\ NoFlight
  /\ NoHttp

NextNotifyOverlap ==
  /\ \/ BeginDispatch
     \/ \E assignment \in RowsToDispatch, success \in BOOLEAN :
          DispatchAssignment(assignment, success)
     \/ EndDispatch
     \/ CheckScheduledEvents /\ UNCHANGED inflight
     \/ NotifyNow /\ UNCHANGED inflight
  /\ UNCHANGED
       <<httpVars, matchVars, now, sweepVars, onboardVars, laterSessions>>

SpecNotifyOverlap == InitNotifyOverlap /\ [][NextNotifyOverlap]_vars

(***************************************************************************)
(* processSlackMessage in two steps for a message that finds the session   *)
(* in collecting_notes: the handler reads the session, then, after its     *)
(* awaits, creates the participant and writes the session.                 *)
(***************************************************************************)
\* the deliveries whose handler has read the session in collecting_notes
TakingNotes ==
  IF inflight.pc = "notes" THEN DOMAIN inflight.messageText ELSE {}

\* routes.ts 1526-1551 and the case of 1629: the session and the contact are
\* read and the switch enters collecting_notes
BeginNotesMessage(r, text) ==
  /\ inflight.pc \in {"idle", "notes"}
  /\ r \notin TakingNotes
  /\ session.exists
  /\ contact.exists
  /\ session.conversationState = "collecting_notes"
  /\ inflight' =
       [pc |-> "notes",
        messageText |->
          [q \in TakingNotes \cup {r} |->
             IF q = r THEN Trim(text) ELSE inflight.messageText[q]]]
  /\ prompts' = <<>>
  /\ UNCHANGED <<storeVars, giftPosts, session, contact>>

\* routes.ts 1630-1716 for delivery r: the participant is created, the
\* contact and the session are written, the last prompt is posted
EndNotesMessage(r, userTimezone) ==
  /\ r \in TakingNotes
  /\ LET messageText == inflight.messageText[r]
         step == NotesStep(messageText, Trim(ToLowerCase(messageText)))
         left == TakingNotes \ {r}
     IN /\ session' =
             IF step.field = "none"
             THEN [session EXCEPT !.conversationState = step.state]
             ELSE [session EXCEPT !.conversationState = step.state,
                                  ![step.field] = step.value]
        /\ contact' = step.contact
        /\ participants' =
             WithParticipant(
               NewParticipantId,
               ParticipantOfSession(
                 IF step.field = "none" THEN NoText ELSE step.value,
                 userTimezone))
        /\ prompts' = <<step.prompt>>
        /\ inflight' =
             IF left = {} THEN NoHandler
             ELSE [inflight EXCEPT
                     !.messageText = [q \in left |-> inflight.messageText[q]]]
  /\ UNCHANGED <<exclusions, event, assignments, giftPosts>>

\* The conversation of user 1 after the phone number: every field but the
\* notes is collected, nobody is a participant yet.
InitNotesRace ==
  /\ StoreEmpty
  /\ now = 0
  /\ NoSweeps
  /\ MatchIdle
  /\ NoFlight
  /\ NoHttp
  /\ session =
       [NewSession(1) EXCEPT
          !.conversationState = "collecting_notes",
          !.collectedName = <<"A", "n", "n">>,
          !.collectedCountry = <<"L", "v">>,
          !.collectedCity = <<"R", "i", "g", "a">>,
          !.collectedZip = <<"L", "V", "1">>,
          !.collectedStreet = <<"M", "a", "i", "n", " ", "1">>,
          !.collectedPhone = <<"5", "5", "5", "1", "2", "3", "4">>]
  /\ contact = [InvitedContact(1) EXCEPT !.status = "in_progress"]
  /\ prompts = <<>>

NextNotesRace ==
  /\ \/ \E r \in Requests, text \in MessageTexts : BeginNotesMessage(r, text)
     \/ \E r \in Requests, userTimezone \in Zones :
          EndNotesMessage(r, userTimezone)
     \/ /\ \E text \in MessageTexts, userTimezone \in Zones :
             SlackMessageEvent(session.slackUserId, text, TRUE, userTimezone)
        /\ UNCHANGED inflight
  /\ UNCHANGED
       <<httpVars, matchVars, now, sweepVars, laterSessions>>

SpecNotesRace == InitNotesRace /\ [][NextNotesRace]_vars

(***************************************************************************)
(* handleGiftConfirmation in two steps: the handler finds the assignment,  *)
(* then, after its awaits, writes and posts with the row as it found it.   *)
(* The webhook starts a handler per delivery and does not wait for it.     *)
(***************************************************************************)
\* the deliveries of the webhook whose handler has found its assignment
Confirming ==
  IF inflight.pc = "confirm" THEN DOMAIN inflight.userAssignment ELSE {}

\* routes.ts 1446-1464, for a reply with the words of a yes
BeginGiftConfirmation(r, user) ==
  /\ inflight.pc \in {"idle", "confirm"}
  /\ r \notin Confirming
  /\ \E a \in PendingGiftAssignments(user) :
       inflight' =
         [pc |-> "confirm",
          userAssignment |->
            [q \in Confirming \cup {r} |->
               IF q = r THEN a ELSE inflight.userAssignment[q]]]
  /\ giftPosts' = {}
  /\ UNCHANGED storeVars

\* routes.ts 1466-1503 for the row userAssignment of delivery r. posted: the
\* chat.postMessage call to the receiver returns.
EndGiftConfirmation(r, posted) ==
  /\ r \in Confirming
  /\ LET userAssignment == inflight.userAssignment[r]
         notify == /\ participants[userAssignment.receiverId].slackUserId
                   /\ ~userAssignment.receiverNotified
         left == Confirming \ {r}
     IN /\ assignments' =
             {IF x.giverId = userAssignment.giverId
              THEN [x EXCEPT !.giftSent = TRUE,
                             !.giftSentAt = now,
                             !.receiverNotified =
                                IF notify /\ posted THEN TRUE ELSE @]
              ELSE x : x \in assignments}
        /\ giftPosts' =
             (IF notify THEN {ReceiverNotice(userAssignment)} ELSE {})
               \cup (IF notify /\ ~posted THEN {}
                     ELSE {ThankYou(userAssignment.giverId)})
        /\ inflight' =
             IF left = {} THEN NoHandler
             ELSE [inflight EXCEPT
                     !.userAssignment =
                        [q \in left |-> inflight.userAssignment[q]]]
  /\ UNCHANGED <<participants, exclusions, event>>

\* The store after the first reminder has reached the givers 1 and 2.
InitGiftRace ==
  /\ now = SlotOfDayZero + 1
  /\ \E receiverSlack \in BOOLEAN :
       participants =
         [p \in PIds |->
            [slackUserId |-> IF p = 2 THEN receiverSlack ELSE TRUE,
             timezone |-> NoZone]]
  /\ exclusions = {}
  /\ event = [NewEvent("complete") EXCEPT !.matchingComplete = TRUE,
                                          !.notificationsSent = TRUE]
  /\ assignments =
       {IF a.giverId \in NotifiedGivers
        THEN [a EXCEPT !.notified = TRUE, !.notifiedAt = 0,
                       !.lastReminderAt = now,
                       !.nextReminderAt =
                          GetNext10AMInTimezone(NoZone, now)]
        ELSE a : a \in CycleAssignments}
  /\ NoSweeps
  /\ NoOnboarding
  /\ MatchIdle
  /\ NoFlight
  /\ NoHttp

NextGiftRace ==
  /\ \/ \E r \in Requests, user \in PIds : BeginGiftConfirmation(r, user)
     \/ \E r \in Requests, posted \in BOOLEAN : EndGiftConfirmation(r, posted)
     \/ /\ \E a \in {x \in assignments : x.notified},
              giftSent, posted \in BOOLEAN :
             SetGiftStatus(a, giftSent, posted)
        /\ UNCHANGED inflight
  /\ UNCHANGED
       <<httpVars, matchVars, now, sweepVars, onboardVars, laterSessions>>

SpecGiftRace == InitGiftRace /\ [][NextGiftRace]_vars

(***************************************************************************)
(* The two handlers that tell a receiver that the gift is on its way, with *)
(* what Slack does with the message.  fetch returns whenever Slack         *)
(* answers, also when the answer says ok: false; the handlers do not read  *)
(* the answer (routes.ts 1359-1371, 1475-1487).                            *)
(***************************************************************************)
SlackAnswers == {"ok", "error", "throws"}

\* the await of fetch goes on to the next statement
FetchReturns(answer) == answer # "throws"

\* the answer to the message the step has posted to a receiver, if any
ReceiverAnswer(answer) ==
  /\ slackAnswer' =
       IF \E p \in giftPosts' : p.kind = "gift_on_its_way" THEN answer
       ELSE NoAnswer
  /\ UNCHANGED <<authenticated, request, response>>

\* handleGiftConfirmation reached from POST /api/slack/events
GiftReplyAnswered(user, text, answer) ==
  /\ SlackMessageEvent(user, text, FetchReturns(answer), NoZone)
  /\ ReceiverAnswer(answer)

\* PATCH /api/assignments/:id/gift-status
GiftStatusAnswered(a, giftSent, answer) ==
  /\ SetGiftStatus(a, giftSent, FetchReturns(answer))
  /\ ReceiverAnswer(answer)
  /\ UNCHANGED onboardVars

NextGiftAnswer ==
  /\ \/ \E user \in PIds, text \in ReplyTexts, answer \in SlackAnswers :
          GiftReplyAnswered(user, text, answer)
     \/ \E a \in assignments, giftSent \in BOOLEAN, answer \in SlackAnswers :
          GiftStatusAnswered(a, giftSent, answer)
  /\ UNCHANGED <<matchVars, now, sweepVars, flightVars>>

SpecGiftAnswer == InitGiftRace /\ [][NextGiftAnswer]_vars

(***************************************************************************)
(* A user who is a giver and has an onboarding conversation: the messages  *)
(* of the users reach processSlackMessage.                                 *)
(***************************************************************************)
\* texts that are an answer about the gift, about the consent, or neither
AnswerTexts ==
  {<<"y">>, <<"N", "o">>, <<"o", "k">>, <<"x">>}

\* The store of InitGiftRace, givers 1 and 2 reminded; user 1 or user 3 has
\* been invited again and not yet answered.
InitGiverInvited ==
  /\ now = SlotOfDayZero + 1
  /\ participants =
       [p \in PIds |-> [slackUserId |-> TRUE, timezone |-> NoZone]]
  /\ exclusions = {}
  /\ event = [NewEvent("complete") EXCEPT !.matchingComplete = TRUE,
                                          !.notificationsSent = TRUE]
  /\ assignments =
       {IF a.giverId \in NotifiedGivers
        THEN [a EXCEPT !.notified = TRUE, !.notifiedAt = 0,
                       !.lastReminderAt = now,
                       !.nextReminderAt =
                          GetNext10AMInTimezone(NoZone, now)]
        ELSE a : a \in CycleAssignments}
  /\ \E user \in {1, 3} :
       /\ session = NewSession(user)
       /\ contact = InvitedContact(user)
  /\ prompts = <<>>
  /\ NoSweeps
  /\ MatchIdle
  /\ NoFlight
  /\ NoHttp

NextGiverInvited ==
  /\ \E user \in PIds, text \in AnswerTexts, posted \in BOOLEAN :
       SlackMessageEvent(user, text, posted, NoZone)
  /\ UNCHANGED <<httpVars, matchVars, now, sweepVars, flightVars>>

SpecGiverInvited == InitGiverInvited /\ [][NextGiverInvited]_vars

(***************************************************************************)
(* Claims about generateMatching.                                          *)
(***************************************************************************)
MatchN == Len(participantIds)
MatchIds == Range(participantIds)
MatchDone == matchPc = "done"
ResultGivers == {result.pairs[i].giverId : i \in DOMAIN result.pairs}
ResultReceivers == {result.pairs[i].receiverId : i \in DOMAIN result.pairs}

\* Some assignment of a receiver to every giver is a bijection without self
\* pairs and without excluded pairs.
Feasible ==
  \E f \in Permutations(MatchIds) :
    \A g \in MatchIds : f[g] # g /\ <<g, f[g]>> \notin exclusionPairs

\* C1: a returned matching has one pair per participant as giver, every
\* participant once as receiver, no self pair and no excluded pair.
C1_MatchingValid ==
  (MatchDone /\ result.found) =>
    /\ Len(result.pairs) = MatchN
    /\ ResultGivers = MatchIds
    /\ ResultReceivers = MatchIds
    /\ \A i \in DOMAIN result.pairs :
         /\ result.pairs[i].giverId # result.pairs[i].receiverId
         /\ <<result.pairs[i].giverId, result.pairs[i].receiverId>>
              \notin exclusionPairs

C1_Witness ==
  /\ MatchDone /\ result.found /\ MatchN = MaxParticipants
  /\ \E p \in exclusionPairs : p[1] # p[2]

\* C3: for n >= 2 generateMatching returns null only when no valid
\* assignment exists.
C3_NullOnlyWhenInfeasible ==
  (MatchDone /\ MatchN >= 2 /\ Feasible) => result.found

C3_Witness ==
  /\ MatchDone /\ MatchN = MaxParticipants /\ Feasible /\ result.found
  /\ Cardinality({p \in exclusionPairs : p[1] # p[2]}) >= 2

\* C4: a call never makes more than 100 attempts, every step of it brings it
\* nearer to its end and no step before the end is stuck, so it never loops
\* forever; when every participant excludes every other one (n >= 2) it
\* returns null.
EverybodyExcluded ==
  MatchN >= 2 /\ FullExclusion(MatchN) \subseteq exclusionPairs

\* What is left of the call: it falls with every step, so the call ends.
MatchMeasure ==
  CASE matchPc = "start" -> MaxAttempts + 2
    [] matchPc = "loop" -> MaxAttempts + 1 - attempt
    [] OTHER -> 0

C4_FullExclusionEndsInfeasible ==
  /\ [](attempt <= 100 /\ MatchMeasure >= 0)
  /\ []((MatchDone /\ EverybodyExcluded) => ~result.found)
  /\ []((matchPc = "loop" /\ attempt < MaxAttempts)
          => AttemptResults(participantIds, exclusionPairs) # {})
  /\ [][MatchMeasure' < MatchMeasure]_vars

C4_Witness ==
  /\ MatchDone /\ MatchN = MaxParticipants /\ EverybodyExcluded
  /\ ~result.found /\ attempt = 100

(***************************************************************************)
(* Claims about the stored assignments.                                    *)
(***************************************************************************)
Givers == {a.giverId : a \in assignments}
Receivers == {a.receiverId : a \in assignments}

\* C2: the stored assignments have giver # receiver, one assignment per
\* giver, and the receivers are the givers, each once.
C2_StoredBijection ==
  /\ \A a \in assignments : a.giverId # a.receiverId
  /\ \A a, b \in assignments : a.giverId = b.giverId => a = b
  /\ \A a, b \in assignments : a.receiverId = b.receiverId => a = b
  /\ Receivers = Givers

(***************************************************************************)
(* Claims about the reminder sweep.                                        *)
(***************************************************************************)
\* the reminders of this clock value that Slack accepted, for one giver
DeliveredTo(g) == {r \in reminders : r.giverId = g /\ r.ok}

\* C5: sweeps run one after the other at one clock value deliver at most
\* one reminder per assignment.
C5_OneReminderPerClockValue ==
  \A g \in PIds : Cardinality(DeliveredTo(g)) <= 1

\* C25: at most one reminder is delivered per giver and stored slot, also
\* when a sweep runs while another one is in progress.
C25_OneReminderPerSlot ==
  \A g \in PIds :
    \A r, q \in DeliveredTo(g) : r.slot = q.slot => r = q

\* C6: a reminder is sent only for an assignment with a stored
\* nextReminderAt that is not later than the clock of the sweep.
C6_NeverBeforeStoredSlot ==
  \A r \in reminders : r.slot # NoDate /\ r.slot <= now

\* a sweep has delivered a reminder whose slot had passed
C6_Witness ==
  \E r \in reminders : r.ok /\ r.slot # NoDate /\ r.slot < now

LocalHour(timezone, date) ==
  LET tz == IF timezone = NoZone THEN DEFAULT_TIMEZONE ELSE timezone
  IN ToZonedTime(date, tz) % HoursPerDay

\* C7: every reminder is sent at a local hour of the giver at or after
\* REMINDER_HOUR.
C7_NeverBeforeReminderHour ==
  \A r \in reminders :
    LocalHour(participants[r.giverId].timezone, now) >= REMINDER_HOUR

(***************************************************************************)
(* Claims about gift confirmation.                                         *)
(***************************************************************************)
YesTexts == {t \in ReplyTexts : IsYes(Trim(ToLowerCase(Trim(t))))}

\* a reply of user with text and posted is the step taken
IsReplyStep(user, text, posted) ==
  SlackMessageEvent(user, text, posted, NoZone)

\* C8, as amended: an affirmative reply from a giver whose assignment is
\* notified, not gift-sent and previously reminded sets giftSent on that
\* assignment and posts one receiver notification when the receiver has a
\* Slack user id and receiverNotified is not yet set, none otherwise; a
\* reply from a giver without such an assignment, which is what every
\* repetition of the reply is, changes no assignment and posts nothing.
C8_YesNotifiesReceiverOnceIfReachable ==
  /\ [][\A user \in PIds, text \in YesTexts, posted \in BOOLEAN :
          IsReplyStep(user, text, posted) =>
            IF PendingGiftAssignments(user) # {}
            THEN \E a \in PendingGiftAssignments(user) :
                   /\ \E b \in assignments' :
                        /\ b.giverId = a.giverId
                        /\ b.giftSent
                   /\ giftPosts' \ {ThankYou(user)} =
                        IF /\ participants[a.receiverId].slackUserId
                           /\ ~a.receiverNotified
                        THEN {ReceiverNotice(a)}
                        ELSE {}
            ELSE /\ assignments' = assignments
                 /\ giftPosts' = {}]_vars
  /\ [](\A a \in assignments : a.giftSent =>
          PendingGiftAssignments(a.giverId) = {})

\* a yes has marked the gift sent, told the receiver and thanked the giver
C8_Witness ==
  \E a \in assignments :
    /\ a.giftSent /\ a.receiverNotified /\ a.lastReminderAt # NoDate
    /\ giftPosts = {ReceiverNotice(a), ThankYou(a.giverId)}

\* C8 as stated: every affirmative reply from a giver with such an
\* assignment sets giftSent and posts exactly one receiver notification.
C8_YesAlwaysNotifiesReceiver ==
  [][\A user \in PIds, text \in YesTexts, posted \in BOOLEAN :
       (IsReplyStep(user, text, posted) /\ PendingGiftAssignments(user) # {})
         => \E a \in PendingGiftAssignments(user) :
              /\ \E b \in assignments' : b.giverId = a.giverId /\ b.giftSent
              /\ giftPosts' \ {ThankYou(user)} = {ReceiverNotice(a)}]_vars

\* C26: the message that the gift is on its way is posted to a receiver only
\* while receiverNotified is not set on the assignment, so at most once,
\* also when the handlers of two deliveries of the giver's yes, or of the
\* yes and the admin's PATCH, run at once.
C26_ReceiverToldOnce ==
  [][\A p \in giftPosts' :
       p.kind = "gift_on_its_way"
         => \A a \in assignments :
              a.receiverId = p.to => ~a.receiverNotified]_vars

\* C33: receiverNotified of an assignment becomes true only in a step in
\* which Slack answered ok to the message for the receiver.
C33_ReceiverNotifiedOnlyIfAccepted ==
  [][\A a \in assignments, b \in assignments' :
       (a.giverId = b.giverId /\ ~a.receiverNotified /\ b.receiverNotified)
         => slackAnswer' = "ok"]_vars

\* the replies with the words of a no
NoTexts == {t \in ReplyTexts : IsNo(Trim(ToLowerCase(Trim(t))))}

\* C15: a negative reply from a giver whose assignment is notified, not
\* gift-sent and previously reminded posts the encouragement to the giver
\* and nothing else, and changes no assignment.
C15_NoOnlyEncourages ==
  [][\A user \in PIds, text \in NoTexts, posted \in BOOLEAN :
       (PendingGiftAssignments(user) # {} /\ IsReplyStep(user, text, posted))
         => /\ assignments' = assignments
            /\ giftPosts' = {Encouragement(user)}]_vars

(***************************************************************************)
(* Claims about the onboarding conversation.                               *)
(***************************************************************************)
Rank(state) == CHOOSE i \in DOMAIN OnboardingOrder : OnboardingOrder[i] = state

Terminal == session.conversationState \in {"completed", "declined"}

\* C10: a message to a session in completed or declined posts no prompt,
\* changes neither the session nor the contact and creates no participant.
C10_FinishedSessionIgnoresMessages ==
  [][Terminal =>
       /\ prompts' = <<>>
       /\ session' = session
       /\ contact' = contact
       /\ participants' = participants]_vars

\* a message has been handled for a finished session
C10_Witness ==
  /\ Terminal
  /\ prompts = <<>>

\* the text does not pass the test of the collecting state
FailsValidation(state, text) ==
  CASE state = "collecting_name" -> Len(text) < 2 \/ Len(text) > 100
    [] state \in {"collecting_country", "collecting_city"} -> Len(text) < 2
    [] state = "collecting_zip" -> Len(text) < 3
    [] state = "collecting_street" -> Len(text) < 5
    [] state = "collecting_phone" -> Len(Digits(text)) < 7
    [] OTHER -> FALSE

\* the prompt that asks again in a collecting state
RepromptOf(state) ==
  CASE state = "collecting_name" -> "reprompt_name"
    [] state = "collecting_country" -> "reprompt_country"
    [] state = "collecting_city" -> "reprompt_city"
    [] state = "collecting_zip" -> "reprompt_zip"
    [] state = "collecting_street" -> "reprompt_street"
    [] state = "collecting_phone" -> "reprompt_phone"

\* the contact's message with this text is the step taken
IsMessageStep(text) ==
  \E userTimezone \in Zones :
    SlackMessageEvent(session.slackUserId, text, TRUE, userTimezone)

\* the text holds one of the words
HoldsOneOf(lowerText, words) == \E w \in words : Includes(lowerText, w)

AffirmativeWords ==
  {<<"y", "e", "s">>, <<"y", "e", "a", "h">>, <<"s", "u", "r", "e">>,
   <<"o", "k">>}

NegativeWords ==
  {<<"n", "o">>, <<"n", "o", "p", "e">>,
   <<"d", "e", "c", "l", "i", "n", "e">>}

\* the contact has joined: the session asks for the name
Joined ==
  /\ session'.conversationState = "collecting_name"
  /\ contact'.status = "in_progress"
  /\ contact'.respondedAt = contact.respondedAt

\* the contact has declined
Declined ==
  /\ session'.conversationState = "declined"
  /\ contact'.status = "declined"
  /\ contact'.respondedAt = now

\* the contact is asked again
AskedAgain ==
  /\ session' = session
  /\ contact' = contact
  /\ prompts' = <<"reprompt_consent">>

\* C35 as stated: in awaiting_consent a text with an affirmative word joins,
\* a text with a negative word declines, a text with neither is asked again.
C35_ConsentByVocabulary ==
  [][\A text \in ConsentTexts :
       (session.conversationState = "awaiting_consent"
          /\ IsMessageStep(text))
         => LET lowerText == Trim(ToLowerCase(Trim(text)))
                yes == HoldsOneOf(lowerText, AffirmativeWords)
                no == HoldsOneOf(lowerText, NegativeWords)
            IN /\ yes => Joined
               /\ no => Declined
               /\ (~yes /\ ~no) => AskedAgain]_vars

\* C35, as amended: in awaiting_consent the affirmative words are looked
\* for first. A text with an affirmative word joins, also when it holds a
\* negative word; a text with a negative word and no affirmative word
\* declines; a text with neither is asked again.
C35_ConsentAffirmativeFirst ==
  [][\A text \in ConsentTexts :
       (session.conversationState = "awaiting_consent"
          /\ IsMessageStep(text))
         => LET lowerText == Trim(ToLowerCase(Trim(text)))
                yes == HoldsOneOf(lowerText, AffirmativeWords)
                no == HoldsOneOf(lowerText, NegativeWords)
            IN IF yes THEN Joined
               ELSE IF no THEN Declined
               ELSE AskedAgain]_vars

\* the contact has declined and the time of the response is stored
C35_Witness ==
  /\ session.conversationState = "declined"
  /\ contact.status = "declined"
  /\ contact.respondedAt = now
  /\ prompts = <<"declined_ack">>

\* C37: a message to a session in awaiting_consent or in a collecting state
\* is answered with exactly one prompt, whether its text passes the test
\* of the state or not; a message to a session in completed or declined
\* is answered with none. Every step of the conversation is one message
\* of the contact.
C37_OnePromptPerMessage ==
  [][Len(prompts') = IF Terminal THEN 0 ELSE 1]_vars

\* a zip code that is too short has been answered with the one prompt that
\* asks for it again
C37_Witness ==
  /\ session.conversationState = "collecting_zip"
  /\ prompts = <<"reprompt_zip">>

\* the text is a reply that the state accepts: a yes to the consent, a text
\* that passes the test of a collecting state, any text for the notes
ValidReply(state, text) ==
  IF state = "awaiting_consent"
  THEN HoldsOneOf(ToLowerCase(Trim(text)), AffirmativeWords)
  ELSE ~FailsValidation(state, Trim(text))

SkipTexts == {<<"s", "k", "i", "p">>, <<"n", "o", "n", "e">>, <<"n", "/", "a">>}

\* C36: a message handled in collecting_notes moves the session to
\* completed, marks the contact completed and adds one participant, whose
\* name, country, city, zip, street and phone are the collected fields of
\* the session and whose notes are the text, or none when the text is
\* empty or one of skip, none, n/a; so also when users.info gives no zone.
C36_NotesCompleteAndMaterialize ==
  [][\A text \in MessageTexts :
       (session.conversationState = "collecting_notes"
          /\ IsMessageStep(text))
         => /\ session'.conversationState = "completed"
            /\ contact'.status = "completed"
            /\ Cardinality(DOMAIN participants') =
                 Cardinality(DOMAIN participants) + 1
            /\ \A id \in DOMAIN participants' \ DOMAIN participants :
                 LET p == participants'[id]
                 IN /\ p.name = session.collectedName
                    /\ p.country = session.collectedCountry
                    /\ p.city = session.collectedCity
                    /\ p.zip = session.collectedZip
                    /\ p.street = session.collectedStreet
                    /\ p.phone = session.collectedPhone
                    /\ p.notes =
                         IF \/ Trim(text) = <<>>
                            \/ ToLowerCase(Trim(text)) \in SkipTexts
                         THEN NoText
                         ELSE Trim(text)
            /\ \A id \in DOMAIN participants :
                 participants'[id] = participants[id]]_vars

\* the conversation is completed with a skip and without a zone from
\* users.info: the one participant has the collected name and no notes
C36_Witness ==
  /\ session.conversationState = "completed"
  /\ contact.status = "completed"
  /\ Cardinality(DOMAIN participants) = 1
  /\ \A id \in DOMAIN participants :
       /\ participants[id].notes = NoText
       /\ participants[id].timezone = NoZone
       /\ participants[id].name = session.collectedName
       /\ participants[id].phone = session.collectedPhone

\* C28: the session of user 1, begun with no participant in the store,
\* brings at most one participant into it, also when two messages of the
\* user are handled at once while the session is in collecting_notes.
C28_OneParticipantPerSession == Cardinality(DOMAIN participants) <= 1

\* the texts of AnswerTexts that say yes or no about the gift
GiftAnswerTexts == {<<"y">>, <<"N", "o">>}

\* the user has an assignment that is notified, reminded and not gift-sent
HasPendingGift(user) ==
  \E a \in assignments :
    /\ a.giverId = user
    /\ a.notified
    /\ ~a.giftSent
    /\ a.lastReminderAt # NoDate

\* C34: a message that says yes or no about the gift, from a user with a
\* pending assignment, is answered as gift confirmation and leaves the
\* session, the contact and the participants as they were, with no prompt
\* of the conversation; every other message changes no assignment, posts
\* nothing about a gift, and is answered by the conversation when the user
\* has one that is not finished.
C34_GiftConfirmationFirst ==
  [][\A user \in PIds, text \in AnswerTexts, posted \in BOOLEAN :
       SlackMessageEvent(user, text, posted, NoZone) =>
         IF HasPendingGift(user) /\ text \in GiftAnswerTexts
         THEN /\ session' = session
              /\ contact' = contact
              /\ participants' = participants
              /\ prompts' = <<>>
              /\ giftPosts' # {}
         ELSE /\ assignments' = assignments
              /\ giftPosts' = {}
              /\ (session.slackUserId = user /\ ~Terminal)
                   => Len(prompts') = 1]_vars

\* user 1 has said yes about the gift while the conversation was waiting for
\* the consent: the gift is marked sent, the conversation still waits
C34_Witness ==
  /\ session.slackUserId = 1
  /\ session.conversationState = "awaiting_consent"
  /\ contact.status = "invited"
  /\ prompts = <<>>
  /\ ThankYou(1) \in giftPosts
  /\ \E a \in assignments : a.giverId = 1 /\ a.giftSent

\* C11: a text that fails the test of the current collecting state leaves
\* conversationState and every collected field as they are, and the user
\* gets the prompt to try again.
C11_BadInputKeepsSession ==
  [][\A text \in MessageTexts :
       (FailsValidation(session.conversationState, Trim(text))
          /\ IsMessageStep(text))
         => /\ session' = session
            /\ prompts' = <<RepromptOf(session.conversationState)>>]_vars

\* a text with too few digits has been answered in collecting_phone, with
\* the fields collected before still there
C11_Witness ==
  /\ session.conversationState = "collecting_phone"
  /\ prompts = <<"reprompt_phone">>
  /\ session.collectedStreet # NoText
  /\ session.collectedPhone = NoText

CollectedFields ==
  {"collectedName", "collectedCountry", "collectedCity", "collectedZip",
   "collectedStreet", "collectedPhone", "collectedNotes"}

\* C12: a collected field that is set is still set after every later
\* message.
C12_CollectedFieldsOnlyGrow ==
  [][\A field \in CollectedFields :
       session[field] # NoText => session'[field] # NoText]_vars

\* every field has been collected and a message has come after the last
C12_Witness ==
  /\ \A field \in CollectedFields : session[field] # NoText
  /\ session.conversationState = "completed"
  /\ prompts = <<>>

(***************************************************************************)
(* Claims about the slot the sweep stores first.                           *)
(***************************************************************************)
Instants == 0..((MaxClockDays + 2) * 24)

LocalDay(timezone, date) ==
  LET tz == IF timezone = NoZone THEN DEFAULT_TIMEZONE ELSE timezone
  IN ToZonedTime(date, tz) \div 24

\* the instant of 10:00 local on the local calendar day of date
TenLocalOnDayOf(timezone, date) ==
  CHOOSE u \in Instants :
    /\ LocalHour(timezone, u) = 10
    /\ LocalDay(timezone, u) = LocalDay(timezone, date)

\* the first instant of 10:00 local that is not before date
NextTenLocalFrom(timezone, date) ==
  CHOOSE u \in Instants :
    /\ u >= date
    /\ LocalHour(timezone, u) = 10
    /\ \A v \in date..(u - 1) : LocalHour(timezone, v) # 10

\* the slot the sweep is to store for an assignment that has none
ExpectedFirstSlot(a) ==
  LET anchored == TenLocalOnDayOf(GiverZone(a), a.notifiedAt + 7 * 24)
  IN IF anchored < now THEN NextTenLocalFrom(GiverZone(a), now)
     ELSE anchored

\* C13: for an eligible assignment without nextReminderAt the sweep stores
\* 10:00 local of the local day of notifiedAt + 7 days, or, when that is
\* before the clock of the sweep, the next 10:00 local from that clock on.
C13_FirstSlotAnchored ==
  [][sweeps' = sweeps + 1 =>
       \A a \in assignments :
         (Considered(a) /\ a.nextReminderAt = NoDate) =>
           \E b \in assignments' :
             /\ b.giverId = a.giverId
             /\ b.nextReminderAt = ExpectedFirstSlot(a)
             /\ b.lastReminderAt = a.lastReminderAt]_vars

\* a sweep that met the assignment after its anchored slot had passed has
\* stored a later 10:00 local
C13_Witness ==
  \E a \in assignments :
    /\ a.nextReminderAt # NoDate
    /\ a.lastReminderAt = NoDate
    /\ a.nextReminderAt >
         TenLocalOnDayOf(GiverZone(a), a.notifiedAt + 7 * 24)
    /\ LocalHour(GiverZone(a), a.nextReminderAt) = 10

\* the assignment of a giver
AssignmentOf(g) == CHOOSE a \in assignments : a.giverId = g

\* C32: no reminder is delivered earlier than 7 days, 168 hours, after the
\* notifiedAt of its assignment.
C32_NotBeforeSevenDays ==
  \A r \in reminders :
    r.ok => now >= AssignmentOf(r.giverId).notifiedAt
                     + FirstReminderDays * HoursPerDay

\* the last clock value of the model
LastInstant == MaxClockDays * HoursPerDay

\* the clock values that are 10:00 local in one of the zones
TenLocalInstants ==
  {s \in 0..LastInstant : \E tz \in Zones : LocalHour(tz, s) = REMINDER_HOUR}

\* s is 10:00 local of giver 1, not before the first slot of the assignment
IsSlotOfGiverOne(s) ==
  /\ LocalHour(participants[1].timezone, s) = REMINDER_HOUR
  /\ s >= GetFirstReminderDate(participants[1].timezone,
                               AssignmentOf(1).notifiedAt)

\* C39: while the gift of giver 1 is not marked sent, the timer keeps
\* sweeping and Slack answers ok, a reminder is delivered at or after every
\* 10:00 local of the giver from the first slot on, up to the last clock
\* value of the model: the reminders do not stop.
C39_RemindedAfterEverySlot ==
  \A s \in TenLocalInstants :
    IsSlotOfGiverOne(s) ~> (AssignmentOf(1).lastReminderAt >= s)

\* a reminder has been delivered at or after the second slot
C39_Witness ==
  /\ ~AssignmentOf(1).giftSent
  /\ AssignmentOf(1).lastReminderAt >=
       GetFirstReminderDate(participants[1].timezone,
                            AssignmentOf(1).notifiedAt) + HoursPerDay

\* C29: a sweep that meets an eligible assignment without nextReminderAt
\* stores one and neither sends nor tries to send a reminder for it in that
\* sweep, whatever the age of notifiedAt; lastReminderAt stays as it was.
C29_FirstEncounterOnlySchedules ==
  [][sweeps' = sweeps + 1 =>
       \A a \in assignments :
         (Considered(a) /\ a.nextReminderAt = NoDate) =>
           /\ \E b \in assignments' :
                /\ b.giverId = a.giverId
                /\ b.nextReminderAt # NoDate
                /\ b.lastReminderAt = a.lastReminderAt
           /\ \A r \in reminders' :
                r.sweep = sweeps + 1 => r.giverId # a.giverId]_vars

\* the first sweep of this clock value met an assignment notified more than
\* seven days ago, stored this very clock value as its slot and sent nothing
C29_Witness ==
  /\ sweeps = 1
  /\ \E a \in assignments :
       /\ Considered(a)
       /\ a.notifiedAt + FirstReminderDays * HoursPerDay < now
       /\ a.nextReminderAt = now
       /\ a.lastReminderAt = NoDate
       /\ \A r \in reminders : r.giverId # a.giverId

\* the first instant of 10:00 local that is after date
NextTenLocalAfter(timezone, date) == NextTenLocalFrom(timezone, date + 1)

\* C30: a sweep at clock value now that delivers a reminder for an
\* assignment sets its lastReminderAt to now and its nextReminderAt to the
\* next 10:00 local of the giver that is strictly later than now.
C30_NextSlotStrictlyLater ==
  [][sweeps' = sweeps + 1 =>
       \A r \in reminders' :
         (r.sweep = sweeps + 1 /\ r.ok) =>
           \E b \in assignments' :
             /\ b.giverId = r.giverId
             /\ b.lastReminderAt = now
             /\ b.nextReminderAt > now
             /\ b.nextReminderAt =
                  NextTenLocalAfter(GiverZone(b), now)]_vars

(***************************************************************************)
(* Claims about the sweep running beside other handlers.                   *)
(***************************************************************************)
\* C14: every reminder the sweep delivers is for an assignment that is
\* notified and not gift-sent at the moment it is sent, also when giftSent
\* was set after the sweep had read its rows.
C14_NoReminderOnceGiftSent ==
  [][\A r \in reminders' \ reminders :
       r.ok => \E a \in assignments :
                 /\ a.giverId = r.giverId
                 /\ a.notified
                 /\ ~a.giftSent]_vars

\* C31: a round of the sweep whose send fails leaves every assignment as it
\* was and takes the row off the rows the sweep has still to go through:
\* the other rows stay, the failed one is not met again in this sweep.
C31_FailedSendChangesNothing ==
  [][\A r \in reminders' \ reminders :
       ~r.ok =>
         /\ assignments' = assignments
         /\ \E row \in RowsToSweep :
              /\ row.giverId = r.giverId
              /\ inflight'.pc = "sweep"
              /\ inflight'.assignmentsNeedingReminder = RowsToSweep \ {row}
         /\ \A row \in inflight'.assignmentsNeedingReminder :
              row.giverId # r.giverId]_vars

\* the send to one giver has failed in the sweep in progress, the giver's
\* assignment has no lastReminderAt, and the row of another giver is still
\* to come
C31_Witness ==
  \E r \in reminders :
    /\ ~r.ok
    /\ r.sweep = sweeps + 1
    /\ \E a \in assignments :
         /\ a.giverId = r.giverId
         /\ a.lastReminderAt = NoDate
         /\ a.nextReminderAt = r.slot
    /\ \E row \in RowsToSweep : row.giverId # r.giverId
    /\ \A row \in RowsToSweep : row.giverId # r.giverId

(***************************************************************************)
(* Claims about the scheduled-event checker.                               *)
(***************************************************************************)
\* routes.ts 430-435: the condition under which the checker dispatches
EventIsDue ==
  /\ event.exists
  /\ event.scheduledDate # NoDate
  /\ event.scheduledDate <= now
  /\ event.matchingComplete
  /\ ~event.notificationsSent

\* a run of the checker has told a giver: a notice is posted at this hour
\* (scheduling and matching post none, the passing hour posts none)
GiverToldNow ==
  /\ now' = now
  /\ \E p \in giftPosts' : p.kind = "assignment"

\* a run of the checker was cut short: givers are told or marked and the
\* event is not updated
CheckCutShort ==
  /\ now' = now
  /\ event' = event
  /\ \/ \E a \in assignments' \ assignments : a.notified
     \/ \E p \in giftPosts' : p.kind = "assignment"

\* C40: when only the scheduled-event checker dispatches, a giver is told
\* of an assignment only in a step that starts with an event whose
\* scheduledDate is set and not later than the current time, whose
\* matchingComplete is true and whose notificationsSent is false; and a
\* check that an exception cuts short leaves the event due, so the next
\* check dispatches again.
C40_CheckerDispatchesOnlyWhenDue ==
  [][/\ GiverToldNow => EventIsDue
     /\ CheckCutShort => EventIsDue']_vars

\* the checker has told a giver at this hour and marked the event, after an
\* earlier check, cut short at an earlier hour, had told another giver
C40_Witness ==
  /\ event.exists
  /\ event.notificationsSent
  /\ event.scheduledDate # NoDate
  /\ event.scheduledDate < now
  /\ \E a \in assignments, b \in assignments :
       /\ a.notified
       /\ b.notified
       /\ a.notifiedAt < now
       /\ b.notifiedAt = now
       /\ AssignmentNotice(b) \in giftPosts

(***************************************************************************)
(* Claims about the notification of the givers.                            *)
(***************************************************************************)
\* the step is a run of sendAllNotifications
IsDispatchStep == NotifyNow \/ CheckScheduledEvents

\* C27: a notification is posted to a giver only while the giver's
\* assignment is not marked notified, so each giver gets at most one, also
\* when a second run of sendAllNotifications starts before the first is
\* over.
C27_OneNotificationWhenOverlapping ==
  [][\A p \in giftPosts' :
       p.kind = "assignment"
         => \A a \in assignments : a.giverId = p.to => ~a.notified]_vars

WholeRound == {a.giverId : a \in assignments} = DOMAIN participants

\* C18: a run of sendAllNotifications that posts a notification, started by
\* the checker or by hand, finds the whole round stored, also while POST
\* /api/events/match is storing a new round.
C18_DispatchAfterWholeRound ==
  [][(IsDispatchStep /\ giftPosts' # {}) => WholeRound]_vars

\* C17: whenever notificationsSent is set on the event, every assignment is
\* notified.
C17_SentMeansAllNotified ==
  (event.exists /\ event.notificationsSent)
    => \A a \in assignments : a.notified

(***************************************************************************)
(* Claims about contacts and invitations.                                  *)
(***************************************************************************)
\* CONTACT_STATUS in the order a contact goes through it; declined is the
\* other end
StatusOrder == <<"imported", "invited", "in_progress", "completed">>

StatusRank(status) == CHOOSE i \in DOMAIN StatusOrder : StatusOrder[i] = status

\* C19: the status of a contact moves forward along imported, invited,
\* in_progress, completed, or to declined, and never leaves completed or
\* declined.
C19_ContactStatusForward ==
  [][(contact.exists /\ contact'.exists /\ contact'.status # contact.status)
       => /\ contact.status \notin {"completed", "declined"}
          /\ \/ contact'.status = "declined"
             \/ StatusRank(contact'.status) > StatusRank(contact.status)]_vars

\* the rows of slack_onboarding_sessions
SessionRows ==
  (IF session.exists THEN <<session>> ELSE <<>>) \o laterSessions

\* C20: at most one row of slack_onboarding_sessions of a Slack user is in
\* a state other than completed and declined.
C20_OneOpenSessionPerContact ==
  \A user \in PIds :
    Cardinality({i \in DOMAIN SessionRows :
                   /\ SessionRows[i].slackUserId = user
                   /\ SessionRows[i].conversationState
                        \notin {"completed", "declined"}}) <= 1

(***************************************************************************)
(* Claims about the stored exclusions.                                     *)
(***************************************************************************)
\* C21: no stored exclusion has the participant as its own excluded
\* participant.
C21_NoSelfExclusionStored ==
  \A e \in exclusions : e[1] # e[2]

(***************************************************************************)
(* Claims about the outcomes of generateMatching and of the match handler. *)
(***************************************************************************)
\* what generateMatching returns when its attempts are used up, routes.ts 136
Infeasible == NullResult

\* C23: a POST /api/events/match answered 400 leaves the stored assignments
\* and the event as they were; when no event was stored it leaves the draft
\* event it created, without assignments.
C23_RejectedMatchChangesNothing ==
  [][(request'.path = <<"events", "match">> /\ response' = 400)
       => /\ assignments' = assignments
          /\ event' = IF event.exists THEN event ELSE NewEvent("draft")]_vars

\* a rejected match has left the round of an earlier matching in place
C23_Witness ==
  /\ request.path = <<"events", "match">>
  /\ response = 400
  /\ assignments # {}
  /\ event.matchingComplete
  /\ event.status = "complete"

\* C22: given fewer than 2 ids generateMatching ends without an attempt and
\* with a result other than the one it gives when the attempts are used up.
C22_TooFewIsDistinct ==
  (matchPc = "done" /\ Len(participantIds) < 2)
    => /\ attempt = 0
       /\ result # Infeasible

(***************************************************************************)
(* Claims about the login.                                                 *)
(***************************************************************************)
\* the paths of /api other than /api/health, /api/auth/* and
\* /api/slack/events
GuardedPath(path) ==
  /\ path # <<"health">>
  /\ path # <<"slack", "events">>
  /\ ~(Len(path) >= 2 /\ path[1] = "auth")

=============================================================================
